---- MODULE Spec2Model ----
(***************************************************************************)
(* Model of the coop-backend controllers: saveAppData (both revisions kept *)
(* in src/src/controllers/dataController.js), register and login           *)
(* (src/src/controllers/authController.js), over a relational store whose  *)
(* tables are keyed by their id column.                                    *)
(*                                                                         *)
(* A save runs on one connection: beginTransaction gives it a working copy *)
(* of the committed tables (work), every statement acts on the working     *)
(* copy, commit publishes it (db' = work) and rollback discards it.        *)
(***************************************************************************)
EXTENDS Integers, Sequences, FiniteSets, TLC

VARIABLES
    rev,      \* which revision of saveAppData serves the requests (1 or 2)
    db,       \* the committed tables
    work,     \* the working copy of the connection's open transaction
    inTx,     \* TRUE while the connection has an open transaction
    pc,       \* position of the running saveAppData ("idle" when none runs)
    req,      \* the running request: req.body (dataToSave) and req.user
    idx,      \* loop index of `for (const indicator of dataToSave.indicators)`
    err,      \* the error caught: "none", "auth" (status 403) or "storage"
    resp,     \* status of the response sent (0 while none was sent)
    pre,      \* the committed tables when the request entered (history)
    written,  \* the blocks whose statements ran in this request (history)
    last,     \* the last auth-controller request served (history)
    hist,     \* the calls of the running request in their order, and the
              \* outcome of its first submission when it is a resubmission
    doc,      \* the answer of the getAppData request being served
    cc        \* two saves on two connections at once (statement by statement)

vars == <<rev, db, work, inTx, pc, req, idx, err, resp, pre, written, last, hist, doc, cc>>

----------------------------------------------------------------------------
(* Bounds of the model.                                                    *)

NumUsers == 2        \* user ids 1..NumUsers
NumPasswords == 2    \* plain-text passwords 1..NumPasswords
NumSalts == 2        \* salts bcrypt.genSalt may return
MaxUsersLen == 2     \* longest users array of a payload

UserIds == 1..NumUsers
Passwords == 1..NumPasswords
Salts == 1..NumSalts

----------------------------------------------------------------------------
(* Roles and areas carried by users and by the bearer token.               *)

Admin == "Administrador"
Manager == "Gerente de Area"
Oversight == "Junta de Vigilancia"
Member == "Asociado"

Roles == {Admin, Manager, Oversight, Member}
Areas == {"Finanzas", "Operaciones"}

Keys == {"users", "indicators", "strategicGoals", "meetings",
         "discussionThreads", "notifications"}

----------------------------------------------------------------------------
(* Passwords.  A password value is null, a plain string, or a string that  *)
(* starts with '$2a$' (a bcrypt hash of `of` under `salt`; of = 0 for a    *)
(* client-made string that only carries the prefix).                       *)

NullPw == [kind |-> "null", of |-> 0, salt |-> 0]
PlainPw(p) == [kind |-> "plain", of |-> p, salt |-> 0]
HashPw(p, s) == [kind |-> "hash", of |-> p, salt |-> s]
PrefixOnlyPw == [kind |-> "hash", of |-> 0, salt |-> 0]

\* user.password && ... : null, undefined and "" are falsy
Truthy(pw) == pw.kind # "null"

\* password.startsWith('$2a$')
StartsWith2a(pw) == pw.kind = "hash"

\* bcrypt.hash(password, salt) of a plain string, or of a string that is
\* itself a hash (a double hash: of < 0 marks it)
BcryptHash(pw, s) ==
    IF pw.kind = "plain" THEN HashPw(pw.of, s) ELSE HashPw(-1, s)

\* bcrypt.compare(password, hash)
BcryptCompare(pw, h) == pw.kind = "plain" /\ h.kind = "hash" /\ h.of = pw.of /\ h.salt # 0

\* A stored value that is a salted hash of a plain password.
IsSaltedHash(pw) == pw.kind = "hash" /\ pw.of \in Passwords /\ pw.salt \in Salts

----------------------------------------------------------------------------
(* Tables: a function from the stored ids to the rows.                     *)

EmptyTable == [k \in {} |-> 0]

Ids(t) == DOMAIN t

\* INSERT ... ON DUPLICATE KEY UPDATE of every column
Upsert(t, id, row) == [k \in (DOMAIN t) \cup {id} |-> IF k = id THEN row ELSE t[k]]

\* DELETE FROM t WHERE id IN (ids)
DeleteIds(t, ids) == [k \in (DOMAIN t) \ ids |-> t[k]]

\* the set of the elements of a sequence
Range(s) == {s[i] : i \in DOMAIN s}

\* dataToSave.xs.map(x => x.id) as a set
IdSet(s) == {s[i].id : i \in DOMAIN s}


----------------------------------------------------------------------------
(* Statements on keyed tables.  A plain INSERT of a row whose id is        *)
(* already in the table fails (ER_DUP_ENTRY) and the handler throws.       *)

\* INSERT INTO t (...) VALUES ... for rows[i..], rows[i] = [id, row]
RECURSIVE InsertRows(_, _, _)
InsertRows(t, rows, i) ==
    IF i > Len(rows) THEN [ok |-> TRUE, t |-> t]
    ELSE IF rows[i].id \in DOMAIN t THEN [ok |-> FALSE, t |-> t]
    ELSE InsertRows(Upsert(t, rows[i].id, rows[i].row), rows, i + 1)

\* DELETE FROM t WHERE <fk> = parentId
DeleteByParent(t, fk, parentId) ==
    [k \in {j \in DOMAIN t : t[j][fk] # parentId} |-> t[k]]

\* DELETE FROM t WHERE <fk> IN (parentIds)
DeleteByParents(t, fk, parentIds) ==
    [k \in {j \in DOMAIN t : t[j][fk] \notin parentIds} |-> t[k]]

\* the date columns the statements bind
DateFields == {"date", "dueDate", "createdDate", "targetDate"}

\* the row with the date properties of the submitted item bound as they
\* were submitted (p.dueDate, meeting.date, g.targetDate, item[col]): no
\* statement passes a date through a conversion; a property the item does
\* not have is bound as NULL and is no column of the row
Dated(row, item) ==
    [c \in DOMAIN row \cup (DateFields \cap DOMAIN item) |->
        IF c \in DOMAIN row THEN row[c] ELSE item[c]]

\* collection.map(item => [parentId, ...columns]) for a keyed child table
ChildRows(coll, fk, parentId) ==
    [i \in DOMAIN coll |->
        [id |-> coll[i].id,
         row |-> Dated([c \in {fk, "v"} |-> IF c = fk THEN parentId ELSE coll[i].v],
                       coll[i])]]

\* the sync without its DELETE ... WHERE <parentIdKey> = ?
SyncSubCollectionNoDelete(t, parentId, coll) ==
    InsertRows(t, ChildRows(coll, "indicator_id", parentId), 1)

\* syncSubCollection (first revision) / deleteAndInsert (second revision)
\* on a child table with an id column: delete by parent, then insert
SyncSubCollection(t, parentId, coll) ==
    InsertRows(DeleteByParent(t, "indicator_id", parentId),
               ChildRows(coll, "indicator_id", parentId), 1)

\* the same on a child table without an id column (historical_data, goals):
\* the table is the set of its rows
SyncPlainCollection(t, parentId, coll) ==
    {r \in t : r.indicator_id # parentId}
        \cup {[indicator_id |-> parentId, v |-> coll[i]] : i \in DOMAIN coll}

----------------------------------------------------------------------------
(* saveAppData: users.                                                     *)

\* JSON.stringify(user.readThreadIds || [])
StringifyReadThreadIds(r) == IF r = "undefined" THEN "[]" ELSE r

\* whether the loop hashes the submitted password of this user
HashesPassword(user) == Truthy(user.password) /\ ~StartsWith2a(user.password)

\* a passwordToSave that hashes whatever string is sent and clears the
\* stored password when none is sent
PasswordToSaveAlways(t, user, s) ==
    IF Truthy(user.password) THEN BcryptHash(user.password, s) ELSE NullPw

\* passwordToSave of one iteration of the users loop
PasswordToSave(t, user, s) ==
    LET existing == IF user.id \in DOMAIN t THEN t[user.id].password ELSE NullPw
    IN  IF HashesPassword(user) THEN BcryptHash(user.password, s) ELSE existing

\* the row written by one iteration of the users loop
UserRow(t, user, s) ==
    [name |-> user.name, role |-> user.role, area |-> user.area,
     password |-> PasswordToSave(t, user, s),
     readThreadIds |-> StringifyReadThreadIds(user.readThreadIds)]

\* for (const user of dataToSave.users) { SELECT password; upsert }
RECURSIVE UsersLoop(_, _, _, _)
UsersLoop(t, us, salts, i) ==
    IF i > Len(us) THEN t
    ELSE UsersLoop(Upsert(t, us[i].id, UserRow(t, us[i], salts[i])), us, salts, i + 1)

\* userIdsToDelete without the exception for the principal
UserIdsToDeleteAll(t, us, actor) == {id \in DOMAIN t : id \notin IdSet(us)}

\* userIdsToDelete
UserIdsToDelete(t, us, actor) ==
    {id \in DOMAIN t : id \notin IdSet(us) /\ id # actor.id}

\* the users block of saveAppData, after its role check
SyncUsers(t, us, actor, salts) ==
    UsersLoop(DeleteIds(t, UserIdsToDelete(t, us, actor)), us, salts, 1)

\* the salts genSalt may return for the users hashed (1 where none is drawn)
SaltChoices(us) ==
    {f \in [DOMAIN us -> Salts] : \A i \in DOMAIN us : ~HashesPassword(us[i]) => f[i] = 1}


----------------------------------------------------------------------------
(* saveAppData: one iteration of the indicators loop.                      *)

\* x || null for an id: undefined (-1) and the falsy 0 become NULL (0)
OrNull(x) == IF x <= 0 THEN 0 ELSE x

\* per-indicator authorization of the first revision
IndicatorDenied1(w, ind, actor) ==
    /\ actor.role = Manager
    /\ ind.id \in DOMAIN w.indicators
    /\ w.indicators[ind.id].responsibleArea # actor.area

\* risksHaveChanged of the second revision
RisksHaveChanged(w, ind) ==
    LET originalRiskIds == {k \in DOMAIN w.risks : w.risks[k].indicator_id = ind.id}
        newRiskIds == IdSet(ind.risks)
    IN  originalRiskIds # newRiskIds

\* per-indicator authorization of the second revision
IndicatorDenied2(w, ind, actor) ==
    LET isNewIndicator == ind.id \notin DOMAIN w.indicators
    IN  \/ isNewIndicator /\ actor.role # Admin
        \/ ~isNewIndicator /\ actor.role = Manager
              /\ w.indicators[ind.id].responsibleArea # actor.area
        \/ RisksHaveChanged(w, ind) /\ actor.role \notin {Admin, Oversight}

\* a check against the area the body submits instead of the stored one
IndicatorDeniedSubmitted(r, w, ind, actor) ==
    actor.role = Manager /\ ind.responsibleArea # actor.area

\* a check that takes role and area from the stored row of the principal
\* where there is one
IndicatorDeniedStoredRole(r, w, ind, actor) ==
    LET a == IF actor.id \in DOMAIN w.users
             THEN [actor EXCEPT !.role = w.users[actor.id].role,
                                !.area = w.users[actor.id].area]
             ELSE actor
    IN  IF r = 1 THEN IndicatorDenied1(w, ind, a) ELSE IndicatorDenied2(w, ind, a)

IndicatorDenied(r, w, ind, actor) ==
    IF r = 1 THEN IndicatorDenied1(w, ind, actor) ELSE IndicatorDenied2(w, ind, actor)

\* the row of INSERT INTO indicators ... ON DUPLICATE KEY UPDATE
IndicatorRow(ind) ==
    [responsibleArea |-> ind.responsibleArea, data |-> ind.data,
     strategicGoalId |-> OrNull(ind.strategicGoalId)]

\* the rows of the action plans of one indicator
PlanRows(plans, parentId) ==
    [i \in DOMAIN plans |->
        [id |-> plans[i].id,
         row |-> Dated([indicator_id |-> parentId, v |-> plans[i].v], plans[i])]]

\* an update that carries no attachment (u.attachment undefined)
NoAttachment == [id |-> 0, v |-> 0]

\* JSON.stringify(u.attachment || null): the text 'null', or the text of
\* the attachment object
JsonStringify(a) ==
    IF a = NoAttachment THEN [json |-> "null", id |-> 0, v |-> 0]
    ELSE [json |-> "object", id |-> a.id, v |-> a.v]

\* update rows whose attachment column is left out of the INSERT
UpdateRowsNoAttachment(p) ==
    [i \in DOMAIN p.updates |->
        [id |-> p.updates[i].id,
         row |-> [action_plan_id |-> p.id, v |-> p.updates[i].v,
                  attachment |-> JsonStringify(NoAttachment)]]]

\* updateValues: the rows of the updates of one action plan; the attachment
\* of an update is kept as JSON text in the attachment column of its row
UpdateRows(p) ==
    [i \in DOMAIN p.updates |->
        [id |-> p.updates[i].id,
         row |-> [action_plan_id |-> p.id, v |-> p.updates[i].v,
                  attachment |-> JsonStringify(p.updates[i].attachment)]]]

\* for (const p of actionPlans) { insert the plan; insert its updates }
RECURSIVE PlansLoop(_, _, _, _, _)
PlansLoop(plansT, updatesT, plans, parentId, i) ==
    IF i > Len(plans) THEN [ok |-> TRUE, plans |-> plansT, updates |-> updatesT]
    ELSE LET one == InsertRows(plansT, SubSeq(PlanRows(plans, parentId), i, i), 1)
             insU == InsertRows(updatesT, UpdateRows(plans[i]), 1)
         IN  IF ~one.ok THEN [ok |-> FALSE, plans |-> plansT, updates |-> updatesT]
             ELSE IF ~insU.ok THEN [ok |-> FALSE, plans |-> one.t, updates |-> updatesT]
             ELSE PlansLoop(one.t, insU.t, plans, parentId, i + 1)

\* the handling without its DELETE FROM action_plan_updates
SyncActionPlansKeepUpdates(w, ind) ==
    PlansLoop(DeleteByParent(w.action_plans, "indicator_id", ind.id), w.action_plan_updates,
              ind.actionPlans, ind.id, 1)

\* "Special handling for Action Plans and their updates"
SyncActionPlans(w, ind) ==
    LET mine == {k \in DOMAIN w.action_plans : w.action_plans[k].indicator_id = ind.id}
        updatesT == DeleteByParents(w.action_plan_updates, "action_plan_id", mine)
        plansT == DeleteByParent(w.action_plans, "indicator_id", ind.id)
    IN  PlansLoop(plansT, updatesT, ind.actionPlans, ind.id, 1)

\* an iteration whose sync of the risks runs DELETE FROM risks without the
\* WHERE indicator_id = ? clause
WriteIndicatorUnscoped(w, ind) ==
    [ok |-> TRUE,
     w |-> [w EXCEPT
             !.indicators = Upsert(@, ind.id, IndicatorRow(ind)),
             !.risks = InsertRows(EmptyTable, ChildRows(ind.risks, "indicator_id", ind.id), 1).t]]

\* the writes of one iteration: the upsert of the indicator and the sync of
\* every sub-collection; ok is FALSE when a statement failed on the way
WriteIndicator(w, ind) ==
    LET obs == SyncSubCollection(w.observations, ind.id, ind.observations)
        rsk == SyncSubCollection(w.risks, ind.id, ind.risks)
        att == SyncSubCollection(w.attachments, ind.id, ind.attachments)
        aud == SyncSubCollection(w.audit_logs, ind.id, ind.auditLog)
        pl == SyncActionPlans(w, ind)
    IN  [ok |-> obs.ok /\ rsk.ok /\ att.ok /\ aud.ok /\ pl.ok,
         w |-> [w EXCEPT
                 !.indicators = Upsert(@, ind.id, IndicatorRow(ind)),
                 !.historical_data = SyncPlainCollection(@, ind.id, ind.historicalData),
                 !.goals = SyncPlainCollection(@, ind.id, ind.goals),
                 !.observations = obs.t,
                 !.risks = rsk.t,
                 !.attachments = att.t,
                 !.audit_logs = aud.t,
                 !.action_plans = pl.plans,
                 !.action_plan_updates = pl.updates]]


----------------------------------------------------------------------------
(* saveAppData: strategic goals, meetings, discussion threads and          *)
(* notifications.  Each operator gives [ok, w]: the working copy after the *)
(* block, ok FALSE when one of its statements failed.                      *)

\* values.map(g => [g.id, ...]) of a collection whose rows hold one value
ValueRows(coll) ==
    [i \in DOMAIN coll |-> [id |-> coll[i].id, row |-> Dated([v |-> coll[i].v], coll[i])]]

\* the block without its DELETE FROM strategic_goals
SyncStrategicGoalsNoDelete(w, gs) ==
    LET ins == InsertRows(w.strategic_goals, ValueRows(gs), 1)
    IN  [ok |-> ins.ok, w |-> [w EXCEPT !.strategic_goals = ins.t]]

\* DELETE FROM strategic_goals; INSERT ... VALUES ?
SyncStrategicGoals(w, gs) ==
    LET ins == InsertRows(EmptyTable, ValueRows(gs), 1)
    IN  [ok |-> ins.ok, w |-> [w EXCEPT !.strategic_goals = ins.t]]

\* DELETE FROM notifications; INSERT ... VALUES ?
SyncNotifications(w, ns) ==
    LET ins == InsertRows(EmptyTable, ValueRows(ns), 1)
    IN  [ok |-> ins.ok, w |-> [w EXCEPT !.notifications = ins.t]]

\* meeting.decisions.map(d => [d.id, meeting.id, ...])
DecisionRows(m) == ChildRows(m.decisions, "meeting_id", m.id)

\* first revision: for each meeting a plain INSERT, then its decisions
RECURSIVE MeetingsLoop1(_, _, _, _)
MeetingsLoop1(mT, dT, ms, i) ==
    IF i > Len(ms) THEN [ok |-> TRUE, m |-> mT, d |-> dT]
    ELSE LET one == InsertRows(mT, SubSeq(ValueRows(ms), i, i), 1)
             dec == InsertRows(dT, DecisionRows(ms[i]), 1)
         IN  IF ~one.ok THEN [ok |-> FALSE, m |-> mT, d |-> dT]
             ELSE IF ~dec.ok THEN [ok |-> FALSE, m |-> one.t, d |-> dT]
             ELSE MeetingsLoop1(one.t, dec.t, ms, i + 1)

\* second revision: for each meeting an upsert, DELETE FROM decisions WHERE
\* meeting_id = ?, then its decisions
RECURSIVE MeetingsLoop2(_, _, _, _)
MeetingsLoop2(mT, dT, ms, i) ==
    IF i > Len(ms) THEN [ok |-> TRUE, m |-> mT, d |-> dT]
    ELSE LET up == Upsert(mT, ms[i].id, Dated([v |-> ms[i].v], ms[i]))
             dec == InsertRows(DeleteByParent(dT, "meeting_id", ms[i].id),
                               DecisionRows(ms[i]), 1)
         IN  IF ~dec.ok THEN [ok |-> FALSE, m |-> up, d |-> dT]
             ELSE MeetingsLoop2(up, dec.t, ms, i + 1)

\* meetingIdsToDelete of the second revision
MeetingIdsToDelete(w, ms) == {id \in DOMAIN w.meetings : id \notin IdSet(ms)}

SyncMeetings(r, w, ms) ==
    LET out == IF r = 1
               THEN MeetingsLoop1(EmptyTable, EmptyTable, ms, 1)
               ELSE MeetingsLoop2(
                        DeleteIds(w.meetings, MeetingIdsToDelete(w, ms)),
                        DeleteByParents(w.decisions, "meeting_id", MeetingIdsToDelete(w, ms)),
                        ms, 1)
    IN  [ok |-> out.ok, w |-> [w EXCEPT !.meetings = out.m, !.decisions = out.d]]

\* the row of INSERT INTO discussion_threads: v stands for title, content
\* and principleTag
ThreadRow(t) == [v |-> t.v, authorId |-> t.authorId, timestamp |-> t.timestamp]

\* an upsert of a thread that leaves a stored row as it is
UpsertThreadIgnore(tT, t) ==
    IF t.id \in DOMAIN tT THEN tT ELSE [k \in (DOMAIN tT) \cup {t.id} |->
        IF k = t.id THEN [v |-> t.v, authorId |-> t.authorId, timestamp |-> t.timestamp]
        ELSE tT[k]]

\* INSERT ... ON DUPLICATE KEY UPDATE title, content, principleTag of the
\* second revision: authorId, authorName and timestamp of a stored row stay
UpsertThread(tT, t) ==
    IF t.id \in DOMAIN tT
    THEN [tT EXCEPT ![t.id] = [@ EXCEPT !.v = t.v]]
    ELSE Upsert(tT, t.id, ThreadRow(t))

ReplyRows(t) == ChildRows(t.replies, "thread_id", t.id)

RECURSIVE ThreadsLoop1(_, _, _, _)
ThreadsLoop1(tT, rT, ts, i) ==
    IF i > Len(ts) THEN [ok |-> TRUE, t |-> tT, r |-> rT]
    ELSE LET one == InsertRows(tT, <<[id |-> ts[i].id, row |-> ThreadRow(ts[i])]>>, 1)
             rep == InsertRows(rT, ReplyRows(ts[i]), 1)
         IN  IF ~one.ok THEN [ok |-> FALSE, t |-> tT, r |-> rT]
             ELSE IF ~rep.ok THEN [ok |-> FALSE, t |-> one.t, r |-> rT]
             ELSE ThreadsLoop1(one.t, rep.t, ts, i + 1)

RECURSIVE ThreadsLoop2(_, _, _, _)
ThreadsLoop2(tT, rT, ts, i) ==
    IF i > Len(ts) THEN [ok |-> TRUE, t |-> tT, r |-> rT]
    ELSE LET up == UpsertThread(tT, ts[i])
             rep == InsertRows(DeleteByParent(rT, "thread_id", ts[i].id),
                               ReplyRows(ts[i]), 1)
         IN  IF ~rep.ok THEN [ok |-> FALSE, t |-> up, r |-> rT]
             ELSE ThreadsLoop2(up, rep.t, ts, i + 1)

\* threadIdsToDelete of the second revision
ThreadIdsToDelete(w, ts) == {id \in DOMAIN w.discussion_threads : id \notin IdSet(ts)}

SyncThreads(r, w, ts) ==
    LET out == IF r = 1
               THEN ThreadsLoop1(EmptyTable, EmptyTable, ts, 1)
               ELSE ThreadsLoop2(
                        DeleteIds(w.discussion_threads, ThreadIdsToDelete(w, ts)),
                        DeleteByParents(w.thread_replies, "thread_id", ThreadIdsToDelete(w, ts)),
                        ts, 1)
    IN  [ok |-> out.ok,
         w |-> [w EXCEPT !.discussion_threads = out.t, !.thread_replies = out.r]]


----------------------------------------------------------------------------
(* The store and the request.                                              *)

NoDb ==
    [users |-> EmptyTable, strategic_goals |-> EmptyTable, indicators |-> EmptyTable,
     meetings |-> EmptyTable, discussion_threads |-> EmptyTable,
     notifications |-> EmptyTable, historical_data |-> {}, goals |-> {},
     observations |-> EmptyTable, risks |-> EmptyTable, action_plans |-> EmptyTable,
     action_plan_updates |-> EmptyTable, attachments |-> EmptyTable,
     audit_logs |-> EmptyTable, decisions |-> EmptyTable, thread_replies |-> EmptyTable]

\* a body with no top-level collection; has = the keys that are present
EmptyBody ==
    [has |-> {}, users |-> <<>>, indicators |-> <<>>, strategicGoals |-> <<>>,
     meetings |-> <<>>, discussionThreads |-> <<>>, notifications |-> <<>>]

NoUser == [id |-> 0, role |-> "", area |-> ""]
NoReq == [body |-> EmptyBody, user |-> NoUser]
\* a document that holds nothing
EmptyDocument ==
    [users |-> {}, strategicGoals |-> {}, indicators |-> {}, meetings |-> {},
     discussionThreads |-> {}, notifications |-> {}]

\* no getAppData request is being served
NoDoc == [status |-> 0, json |-> "none", body |-> EmptyDocument, failed |-> 0]

\* no concurrent saves are running
NoCc == [on |-> FALSE]

NoLast == [op |-> "none", status |-> 0, wrote |-> FALSE, id |-> 0, pw |-> NullPw]

\* no call made yet, first submission
NoHist == [log |-> <<>>, round |-> 1, first |-> [resp |-> 0, err |-> "none", db |-> NoDb]]

\* the order in which saveAppData walks the collections
Order == <<"users", "indicators", "strategicGoals", "meetings",
           "discussionThreads", "notifications">>

\* the notifications block without its if (dataToSave.notifications)
RunsUnguarded(body, k) ==
    \/ k = "notifications"
    \/ k \in body.has /\ (k = "indicators" => Len(body.indicators) > 0)

\* if (dataToSave.<key>) holds and the block has a statement to run
Runs(body, k) == k \in body.has /\ (k = "indicators" => Len(body.indicators) > 0)

\* the next block to run from position n of Order on, or the commit
RECURSIVE NextPc(_, _)
NextPc(body, n) ==
    IF n > Len(Order) THEN "commit"
    ELSE IF Runs(body, Order[n]) THEN Order[n]
    ELSE NextPc(body, n + 1)

\* preliminary checks that leave out strategicGoals and meetings
PrelimDeniedUsersOnly(body, actor) == "users" \in body.has /\ actor.role # Admin

\* "Preliminary Authorization Checks" of the second revision
PrelimDenied(body, actor) ==
    \/ "users" \in body.has /\ actor.role # Admin
    \/ "strategicGoals" \in body.has /\ actor.role # Admin
    \/ "meetings" \in body.has /\ actor.role \notin {Admin, Oversight}

\* a role check that guards the users block only
BlockDenied1UsersOnly(k, actor) == k = "users" /\ actor.role # Admin

\* the role check at the head of a block of the first revision
BlockDenied1(k, actor) ==
    \/ k = "users" /\ actor.role # Admin
    \/ k = "strategicGoals" /\ actor.role # Admin
    \/ k = "meetings" /\ actor.role \notin {Admin, Oversight}

\* a rollback that keeps the statements already executed
RolledBackKeeps(committed, working) == working

\* connection.rollback(): the committed tables after it
RolledBack(committed, working) == committed

\* connection.commit(): the committed tables after it
Committed(committed, working) == working


----------------------------------------------------------------------------
(* saveAppData as steps of one request.                                    *)

\* a throw inside the try block: control goes to the catch block
Throw(kind, w, blocks) ==
    /\ err' = kind
    /\ work' = w
    /\ written' = written \cup blocks
    /\ pc' = "catch"
    /\ hist' = [hist EXCEPT !.log = @ \o (IF blocks = {} THEN <<>> ELSE <<pc>>) \o <<"throw">>]
    /\ UNCHANGED <<rev, db, inTx, req, idx, resp, pre, last, doc, cc>>

\* a block ends and the next one present in the body is entered
Advance(w, n) ==
    /\ work' = w
    /\ written' = written \cup {pc}
    /\ pc' = NextPc(req.body, n)
    /\ hist' = [hist EXCEPT !.log = Append(@, pc)]
    /\ UNCHANGED <<rev, db, inTx, req, idx, err, resp, pre, last, doc, cc>>

\* getConnection, (second revision) the preliminary checks, beginTransaction
\* for the given body and principal
Enter(body, actor) ==
    /\ req' = [body |-> body, user |-> actor]
    /\ pre' = db
    /\ IF rev = 2 /\ PrelimDenied(body, actor)
       THEN /\ err' = "auth"
            /\ pc' = "catch"
            /\ UNCHANGED <<inTx, work>>
       ELSE /\ err' = "none"
            /\ inTx' = TRUE
            /\ work' = db
            /\ pc' = NextPc(body, 1)
    /\ written' = {}

\* the calls Enter makes, in their order
EnterEvents(body, actor) ==
    IF rev = 2 /\ PrelimDenied(body, actor)
    THEN <<"getConnection", "throw">>
    ELSE <<"getConnection", "beginTransaction">>

\* entry of saveAppData with a body drawn from bodies and a principal drawn
\* from actors: getConnection, (second revision) the preliminary checks,
\* beginTransaction
BeginSave(bodies, actors) ==
    /\ pc = "idle"
    /\ \E body \in bodies, actor \in actors : Enter(body, actor)
    /\ hist' = [NoHist EXCEPT !.log = EnterEvents(req'.body, req'.user)]
    /\ UNCHANGED <<rev, db, idx, resp, last, doc, cc>>

SaveUsers ==
    /\ pc = "users"
    /\ IF rev = 1 /\ BlockDenied1("users", req.user)
       THEN Throw("auth", work, {})
       ELSE \E salts \in SaltChoices(req.body.users) :
               Advance([work EXCEPT !.users = SyncUsers(@, req.body.users, req.user, salts)], 2)

SaveIndicator ==
    /\ pc = "indicators"
    /\ LET ind == req.body.indicators[idx]
           out == WriteIndicator(work, ind)
       IN  IF IndicatorDenied(rev, work, ind, req.user) THEN Throw("auth", work, {})
           ELSE IF ~out.ok THEN Throw("storage", out.w, {pc})
           ELSE /\ work' = out.w
                /\ written' = written \cup {pc}
                /\ IF idx < Len(req.body.indicators)
                   THEN idx' = idx + 1 /\ pc' = pc
                   ELSE idx' = 1 /\ pc' = NextPc(req.body, 3)
                /\ hist' = [hist EXCEPT !.log = Append(@, pc)]
                /\ UNCHANGED <<rev, db, inTx, req, err, resp, pre, last, doc, cc>>

SaveStrategicGoals ==
    /\ pc = "strategicGoals"
    /\ LET out == SyncStrategicGoals(work, req.body.strategicGoals)
       IN  IF rev = 1 /\ BlockDenied1("strategicGoals", req.user) THEN Throw("auth", work, {})
           ELSE IF ~out.ok THEN Throw("storage", out.w, {pc})
           ELSE Advance(out.w, 4)

SaveMeetings ==
    /\ pc = "meetings"
    /\ LET out == SyncMeetings(rev, work, req.body.meetings)
       IN  IF rev = 1 /\ BlockDenied1("meetings", req.user) THEN Throw("auth", work, {})
           ELSE IF ~out.ok THEN Throw("storage", out.w, {pc})
           ELSE Advance(out.w, 5)

SaveThreads ==
    /\ pc = "discussionThreads"
    /\ LET out == SyncThreads(rev, work, req.body.discussionThreads)
       IN  IF ~out.ok THEN Throw("storage", out.w, {pc}) ELSE Advance(out.w, 6)

SaveNotifications ==
    /\ pc = "notifications"
    /\ LET out == SyncNotifications(work, req.body.notifications)
       IN  IF ~out.ok THEN Throw("storage", out.w, {pc}) ELSE Advance(out.w, 7)

\* the statement about to run (a query of the block, or the commit) fails
QueryFails ==
    /\ pc \in Keys \cup {"commit"}
    /\ Throw("storage", work, {})

\* an end of the try block that answers before it commits
CommitEventsEarlyAnswer == <<"respond", "commit", "release">>

\* the calls of the end of the try block and of finally, in their order
CommitEvents == <<"commit", "respond", "release">>

\* a catch block that is not followed by the release of the connection
CatchEventsNoRelease == <<"rollback", "respond">>

\* the calls of the catch block and of finally, in their order
CatchEvents == <<"rollback", "respond", "release">>

\* connection.commit(); res.status(200); finally release
Commit ==
    /\ pc = "commit"
    /\ db' = Committed(db, work)
    /\ inTx' = FALSE
    /\ work' = NoDb
    /\ resp' = 200
    /\ pc' = "done"
    /\ hist' = [hist EXCEPT !.log = @ \o CommitEvents]
    /\ UNCHANGED <<rev, req, idx, err, pre, written, last, doc, cc>>

\* catch: connection.rollback(); 403 for a thrown {status: 403}, else 500;
\* finally release
Catch ==
    /\ pc = "catch"
    /\ db' = RolledBack(db, work)
    /\ inTx' = FALSE
    /\ work' = NoDb
    /\ resp' = IF err = "auth" THEN 403 ELSE 500
    /\ pc' = "done"
    /\ hist' = [hist EXCEPT !.log = @ \o CatchEvents]
    /\ UNCHANGED <<rev, req, idx, err, pre, written, last, doc, cc>>

\* the request is over; the next one may enter
Finish ==
    /\ pc \in {"done", "answered"}
    /\ pc' = "idle"
    /\ req' = NoReq
    /\ pre' = NoDb
    /\ idx' = 1
    /\ err' = "none"
    /\ resp' = 0
    /\ written' = {}
    /\ last' = NoLast
    /\ hist' = NoHist
    /\ doc' = NoDoc
    /\ UNCHANGED <<rev, db, work, inTx, cc>>


----------------------------------------------------------------------------
(* The stored state the requests start from, and the request bodies.       *)

Finanzas == "Finanzas"
Operaciones == "Operaciones"

\* a submitted user: profile 1 is an administrator of Finanzas who sends no
\* readThreadIds, profile 2 a member of Operaciones who has read thread 1
SubmittedUser(id, profile, pw) ==
    [id |-> id, name |-> profile,
     role |-> IF profile = 1 THEN Admin ELSE Member,
     area |-> IF profile = 1 THEN Finanzas ELSE Operaciones,
     password |-> pw,
     readThreadIds |-> IF profile = 1 THEN "undefined" ELSE "[1]"]

StoredUser(profile, pw) ==
    [name |-> profile,
     role |-> IF profile = 1 THEN Admin ELSE Member,
     area |-> IF profile = 1 THEN Finanzas ELSE Operaciones,
     password |-> pw,
     readThreadIds |-> IF profile = 1 THEN "[]" ELSE "[1]"]

\* a submitted indicator with the given children
SubmittedIndicator(id, area, data, risks, plans, others) ==
    [id |-> id, responsibleArea |-> area, data |-> data, strategicGoalId |-> -1,
     historicalData |-> others, goals |-> others,
     observations |-> [i \in DOMAIN others |-> [id |-> 10 * id + others[i], v |-> data]],
     risks |-> risks,
     actionPlans |-> plans,
     attachments |-> [i \in DOMAIN others |-> [id |-> 10 * id + others[i], v |-> data]],
     auditLog |-> [i \in DOMAIN others |-> [id |-> 10 * id + others[i], v |-> data]]]

\* one user with a hashed password and an administrator, two indicators of
\* different areas (the first with one child row in every child table), one
\* strategic goal, one meeting with a decision, one thread with a reply and
\* one notification
SeedDb ==
    [users |-> (1 :> StoredUser(1, HashPw(1, 1))) @@ (2 :> StoredUser(2, HashPw(2, 1))),
     strategic_goals |-> (1 :> [v |-> 1]),
     indicators |-> (1 :> [responsibleArea |-> Finanzas, data |-> 1, strategicGoalId |-> 1])
                    @@ (2 :> [responsibleArea |-> Operaciones, data |-> 1, strategicGoalId |-> 0]),
     meetings |-> (1 :> [v |-> 1]),
     discussion_threads |-> (1 :> [v |-> 1, authorId |-> 1, timestamp |-> 1]),
     notifications |-> (1 :> [v |-> 1]),
     historical_data |-> {[indicator_id |-> 1, v |-> 1]},
     goals |-> {[indicator_id |-> 1, v |-> 1]},
     observations |-> (11 :> [indicator_id |-> 1, v |-> 1]),
     risks |-> (1 :> [indicator_id |-> 1, v |-> 1]),
     action_plans |-> (1 :> [indicator_id |-> 1, v |-> 1]),
     action_plan_updates |-> (1 :> [action_plan_id |-> 1, v |-> 1, attachment |-> JsonStringify(NoAttachment)]),
     attachments |-> (11 :> [indicator_id |-> 1, v |-> 1]),
     audit_logs |-> (11 :> [indicator_id |-> 1, v |-> 1]),
     decisions |-> (1 :> [meeting_id |-> 1, v |-> 1]),
     thread_replies |-> (1 :> [thread_id |-> 1, v |-> 1])]

\* the principals a bearer token may carry
Principal(id, role, area) == [id |-> id, role |-> role, area |-> area]

Principals ==
    {Principal(1, Admin, Finanzas), Principal(2, Manager, Finanzas),
     Principal(2, Manager, Operaciones), Principal(2, Oversight, Finanzas),
     Principal(2, Member, Operaciones)}

\* the first content a body may carry for each collection
BodyA ==
    [has |-> Keys,
     users |-> <<SubmittedUser(2, 1, NullPw)>>,
     indicators |->
        <<SubmittedIndicator(1, Finanzas, 2, <<[id |-> 1, v |-> 2]>>,
                             <<[id |-> 1, v |-> 2,
                                updates |-> <<[id |-> 2, v |-> 1, attachment |-> [id |-> 12, v |-> 3]]>>]>>,
                             <<2>>),
          SubmittedIndicator(2, Finanzas, 2, <<>>, <<>>, <<>>)>>,
     strategicGoals |-> <<[id |-> 2, v |-> 1]>>,
     meetings |-> <<[id |-> 1, v |-> 2, decisions |-> <<[id |-> 2, v |-> 1]>>]>>,
     discussionThreads |->
        <<[id |-> 1, v |-> 2, authorId |-> 2, timestamp |-> 2, replies |-> <<>>]>>,
     notifications |-> <<>>]

\* the second content a body may carry for each collection
BodyB ==
    [has |-> Keys,
     users |-> <<>>,
     indicators |->
        <<SubmittedIndicator(3, Operaciones, 1, <<>>, <<>>, <<>>),
          SubmittedIndicator(2, Operaciones, 1, <<[id |-> 2, v |-> 1]>>, <<>>, <<1>>)>>,
     strategicGoals |-> <<[id |-> 1, v |-> 1], [id |-> 1, v |-> 2]>>,
     meetings |-> <<[id |-> 2, v |-> 1, decisions |-> <<[id |-> 1, v |-> 1]>>]>>,
     discussionThreads |->
        <<[id |-> 2, v |-> 1, authorId |-> 1, timestamp |-> 1,
           replies |-> <<[id |-> 1, v |-> 2]>>]>>,
     notifications |-> <<[id |-> 1, v |-> 2], [id |-> 2, v |-> 1]>>]

\* the body that carries the keys of `has` with the content of `full`
Restrict(full, has) ==
    [k \in DOMAIN full |->
        IF k = "has" THEN has ELSE IF k \in has THEN full[k] ELSE <<>>]

\* bodies with any subset of the six keys and the first content, or with
\* one key and the second content
MixedBodies ==
    {Restrict(BodyA, has) : has \in SUBSET Keys}
        \cup {Restrict(BodyB, {k}) : k \in {"indicators", "strategicGoals"}}

Init ==
    /\ rev \in {1, 2}
    /\ db = SeedDb
    /\ work = NoDb
    /\ inTx = FALSE
    /\ pc = "idle"
    /\ req = NoReq
    /\ idx = 1
    /\ err = "none"
    /\ resp = 0
    /\ pre = NoDb
    /\ written = {}
    /\ last = NoLast
    /\ hist = NoHist
    /\ doc = NoDoc
    /\ cc = NoCc

Next ==
    \/ BeginSave(MixedBodies, Principals)
    \/ SaveUsers
    \/ SaveIndicator
    \/ SaveStrategicGoals
    \/ SaveMeetings
    \/ SaveThreads
    \/ SaveNotifications
    \/ QueryFails
    \/ Commit
    \/ Catch
    \/ Finish

Spec == Init /\ [][Next]_vars


----------------------------------------------------------------------------
(* register and login (authController.js).  Each is served in one step,    *)
(* between two saves.                                                      *)

\* register: 400 when a field is missing, 409 when the id or the name is
\* taken, else the user is inserted with a hash of the password
Register(bodies) ==
    /\ pc = "idle"
    /\ \E body \in bodies, s \in Salts :
        LET id == body.id
            name == body.name
            pw == body.password
            existingUser == {k \in DOMAIN db.users : k = id \/ db.users[k].name = name}
            newUser == [name |-> name, role |-> body.role, area |-> body.area,
                        password |-> BcryptHash(pw, s),
                        readThreadIds |-> StringifyReadThreadIds(body.readThreadIds)]
        IN  IF ~Truthy(pw)
            THEN /\ last' = [op |-> "register", status |-> 400, wrote |-> FALSE, id |-> id, pw |-> pw]
                 /\ db' = db
            ELSE IF existingUser # {}
            THEN /\ last' = [op |-> "register", status |-> 409, wrote |-> FALSE, id |-> id, pw |-> pw]
                 /\ db' = db
            ELSE /\ last' = [op |-> "register", status |-> 201, wrote |-> TRUE, id |-> id, pw |-> pw]
                 /\ db' = [db EXCEPT !.users = Upsert(@, id, newUser)]
    /\ pc' = "answered"
    /\ UNCHANGED <<rev, work, inTx, req, idx, err, resp, pre, written, hist, doc, cc>>

\* isMatch of login for the row read
IsMatch(pw, stored) ==
    IF Truthy(stored) /\ StartsWith2a(stored)
    THEN BcryptCompare(pw, stored)
    ELSE pw = stored

\* an upgrade that rewrites the stored value at every matching login
UpgradesOnMatch(pw, stored) == IsMatch(pw, stored)

\* login upgrades a matching plain-text password to a hash
Upgrades(pw, stored) ==
    ~(Truthy(stored) /\ StartsWith2a(stored)) /\ pw = stored

\* what may fail while login is served: nothing, a pool.query (the SELECT
\* or the UPDATE), or jwt.sign after the row was read and upgraded
LoginFailures == {"none", "query", "sign"}

\* login: 400 when a field is missing, 401 when no row has the name or the
\* password does not match rows[0], 500 when a query or jwt.sign throws,
\* else 200; rows[0] is any row of the name
Login(names, pws) ==
    /\ pc = "idle"
    /\ \E name \in names, pw \in pws, s \in Salts, f \in LoginFailures :
        LET rows == {k \in DOMAIN db.users : db.users[k].name = name}
        IN  IF ~Truthy(pw)
            THEN /\ last' = [op |-> "login", status |-> 400, wrote |-> FALSE, id |-> 0, pw |-> pw]
                 /\ db' = db
            ELSE IF rows = {}
            THEN /\ last' = [op |-> "login", status |-> IF f = "query" THEN 500 ELSE 401,
                             wrote |-> FALSE, id |-> 0, pw |-> pw]
                 /\ db' = db
            ELSE \E k \in rows :
                    LET user == db.users[k]
                        writes == f # "query" /\ Upgrades(pw, user.password)
                    IN  /\ last' = [op |-> "login",
                                    status |-> IF f = "query" THEN 500
                                               ELSE IF ~IsMatch(pw, user.password) THEN 401
                                               ELSE IF f = "sign" THEN 500 ELSE 200,
                                    wrote |-> writes, id |-> k, pw |-> pw]
                        /\ db' = IF writes
                                 THEN [db EXCEPT !.users[k].password = BcryptHash(pw, s)]
                                 ELSE db
    /\ pc' = "answered"
    /\ UNCHANGED <<rev, work, inTx, req, idx, err, resp, pre, written, hist, doc, cc>>

----------------------------------------------------------------------------
(* Saves of the users collection, with register and login between them.    *)

\* the sequences over S of length at most n
SeqsUpTo(S, n) == UNION {[1..k -> S] : k \in 0..n}

\* what a body may carry as password: nothing, a plain string, or a string
\* that starts with '$2a$'
SubmittedPasswords == {NullPw, PrefixOnlyPw} \cup {PlainPw(p) : p \in Passwords}

\* the users a body may carry: an administrator who sends no password or
\* the first plain password, or a member who sends a '$2a$' string or
\* another plain password
SubmittedUsers ==
    {SubmittedUser(id, 1, pw) : id \in UserIds, pw \in {NullPw, PlainPw(1)}}
        \cup {SubmittedUser(id, 2, pw) :
                id \in UserIds, pw \in SubmittedPasswords \ {NullPw, PlainPw(1)}}

UsersBodies ==
    {[EmptyBody EXCEPT !.has = {"users"}, !.users = us] :
        us \in SeqsUpTo(SubmittedUsers, MaxUsersLen)}

UsersPrincipals ==
    {Principal(id, Admin, Finanzas) : id \in UserIds}
        \cup {Principal(1, Member, Operaciones)}

LoginPasswords == {NullPw} \cup {PlainPw(p) : p \in Passwords}

RegisterBodies ==
    {SubmittedUser(id, profile, pw) :
        id \in UserIds, profile \in {1, 2}, pw \in LoginPasswords}

NextUsers ==
    \/ BeginSave(UsersBodies, UsersPrincipals)
    \/ SaveUsers
    \/ QueryFails
    \/ Commit
    \/ Catch
    \/ Finish
    \/ Register(RegisterBodies)
    \/ Login({1, 2}, LoginPasswords)

SpecUsers == Init /\ [][NextUsers]_vars

----------------------------------------------------------------------------
(* register and login over users whose stored password may still be plain  *)
(* text (rows written before passwords were hashed).                       *)

\* what the password column of a stored row may hold
StoredPasswords ==
    {NullPw, PrefixOnlyPw} \cup {PlainPw(p) : p \in Passwords}
        \cup {HashPw(p, s) : p \in Passwords, s \in Salts}

InitLogin ==
    /\ rev \in {1, 2}
    /\ \E p1 \in StoredPasswords, p2 \in StoredPasswords :
          db = [SeedDb EXCEPT !.users = (1 :> StoredUser(1, p1)) @@ (2 :> StoredUser(2, p2))]
    /\ work = NoDb
    /\ inTx = FALSE
    /\ pc = "idle"
    /\ req = NoReq
    /\ idx = 1
    /\ err = "none"
    /\ resp = 0
    /\ pre = NoDb
    /\ written = {}
    /\ last = NoLast
    /\ hist = NoHist
    /\ doc = NoDoc
    /\ cc = NoCc

NextLogin ==
    \/ Login({1, 2, 3}, LoginPasswords)
    \/ Register(RegisterBodies)
    \/ Finish

SpecLogin == InitLogin /\ [][NextLogin]_vars

----------------------------------------------------------------------------
(* Saves of one of the collections that the first revision replaces as a   *)
(* whole: strategic goals, meetings, discussion threads, notifications.    *)

\* an empty array, two rows, and an array that repeats an id
GoalsContents ==
    {<<>>,
     <<[id |-> 1, v |-> 2], [id |-> 2, v |-> 1]>>,
     <<[id |-> 3, v |-> 1]>>,
     <<[id |-> 1, v |-> 1], [id |-> 1, v |-> 2]>>}

MeetingsContents ==
    {<<>>,
     <<[id |-> 1, v |-> 2, decisions |-> <<[id |-> 2, v |-> 1]>>]>>,
     <<[id |-> 2, v |-> 1, decisions |-> <<[id |-> 1, v |-> 1]>>],
       [id |-> 2, v |-> 2, decisions |-> <<>>]>>}

ThreadsContents ==
    {<<>>,
     <<[id |-> 1, v |-> 2, authorId |-> 2, timestamp |-> 2,
        replies |-> <<[id |-> 2, v |-> 1]>>]>>,
     <<[id |-> 2, v |-> 1, authorId |-> 1, timestamp |-> 1,
        replies |-> <<[id |-> 1, v |-> 2]>>],
       [id |-> 2, v |-> 2, authorId |-> 2, timestamp |-> 2, replies |-> <<>>]>>}

NotificationsContents ==
    {<<>>, <<[id |-> 1, v |-> 2], [id |-> 2, v |-> 1]>>}

ReplaceBodies ==
    {[EmptyBody EXCEPT !.has = {"strategicGoals"}, !.strategicGoals = c] : c \in GoalsContents}
    \cup {[EmptyBody EXCEPT !.has = {"meetings"}, !.meetings = c] : c \in MeetingsContents}
    \cup {[EmptyBody EXCEPT !.has = {"discussionThreads"}, !.discussionThreads = c] :
            c \in ThreadsContents}
    \cup {[EmptyBody EXCEPT !.has = {"notifications"}, !.notifications = c] :
            c \in NotificationsContents}

ReplacePrincipals ==
    {Principal(1, Admin, Finanzas), Principal(2, Oversight, Finanzas),
     Principal(2, Member, Operaciones)}

NextReplace ==
    \/ BeginSave(ReplaceBodies, ReplacePrincipals)
    \/ SaveStrategicGoals
    \/ SaveMeetings
    \/ SaveThreads
    \/ SaveNotifications
    \/ QueryFails
    \/ Commit
    \/ Catch
    \/ Finish

SpecReplace == Init /\ [][NextReplace]_vars

----------------------------------------------------------------------------
(* Saves that add and remove parents and children: indicators with their   *)
(* sub-collections, meetings with decisions, threads with replies.         *)

\* indicator 1 without children; indicator 1 with a risk, a plan and an
\* update; indicator 2 with children whose ids indicator 1 may still hold;
\* a new indicator 3 with children
ChildrenIndicators ==
    {<<SubmittedIndicator(1, Finanzas, 2, <<>>, <<>>, <<>>)>>,
     <<SubmittedIndicator(1, Finanzas, 1, <<[id |-> 1, v |-> 2]>>,
                          <<[id |-> 2, v |-> 1,
                             updates |-> <<[id |-> 1, v |-> 2, attachment |-> NoAttachment]>>]>>,
                          <<1>>)>>,
     <<SubmittedIndicator(2, Operaciones, 1, <<[id |-> 1, v |-> 1]>>,
                          <<[id |-> 1, v |-> 1,
                             updates |-> <<[id |-> 1, v |-> 1, attachment |-> NoAttachment],
                                           [id |-> 2, v |-> 1, attachment |-> NoAttachment]>>]>>,
                          <<1>>)>>,
     <<SubmittedIndicator(3, Finanzas, 1, <<[id |-> 3, v |-> 1]>>,
                          <<[id |-> 3, v |-> 1, updates |-> <<>>]>>, <<1, 2>>)>>}

ChildrenBodies ==
    {[EmptyBody EXCEPT !.has = {"indicators"}, !.indicators = c] : c \in ChildrenIndicators}
    \cup {[EmptyBody EXCEPT !.has = {"meetings"}, !.meetings = c] : c \in MeetingsContents}
    \cup {[EmptyBody EXCEPT !.has = {"discussionThreads"}, !.discussionThreads = c] :
            c \in ThreadsContents}

ChildrenPrincipals == {Principal(1, Admin, Finanzas), Principal(2, Member, Operaciones)}

NextChildren ==
    \/ BeginSave(ChildrenBodies, ChildrenPrincipals)
    \/ SaveIndicator
    \/ SaveMeetings
    \/ SaveThreads
    \/ QueryFails
    \/ Commit
    \/ Catch
    \/ Finish

SpecChildren == Init /\ [][NextChildren]_vars

----------------------------------------------------------------------------
(* getAppData: sixteen reads, the children grouped by their parent, the     *)
(* document assembled.  The arrays of the document are modelled as sets:   *)
(* no query orders its rows.                                               *)

\* the tables read by the two Promise.all batches, in their order
ReadTables ==
    <<"users", "strategic_goals", "indicators", "meetings", "discussion_threads",
      "notifications", "historical_data", "goals", "observations", "risks",
      "action_plans", "action_plan_updates", "attachments", "audit_logs",
      "decisions", "thread_replies">>

\* a row of a keyed table as the object the driver returns
RowObject(t, k) == [c \in DOMAIN t[k] \cup {"id"} |-> IF c = "id" THEN k ELSE t[k][c]]

\* an object without the property key
Without(o, key) == [c \in DOMAIN o \ {key} |-> o[c]]

\* the rows of a table as a set of objects
Rows(d, t) ==
    IF t \in {"historical_data", "goals"} THEN d[t]
    ELSE {RowObject(d[t], k) : k \in DOMAIN d[t]}

\* ids are strings the client chooses; this one stands for a name that the
\* accumulator {} of groupChildrenBy inherits from Object.prototype
\* ("constructor", "toString", "__proto__", ...)
InheritedIds == {9}

\* !acc[parentId] is false for an inherited name, so no array is created and
\* acc[parentId].push is not a function: groupChildrenBy throws a TypeError
GroupChildrenByThrows(children, key) == \E c \in children : c[key] \in InheritedIds

\* a grouping that keeps one child per parent
GroupChildrenByFirst(children, key) ==
    [p \in {c[key] : c \in children} |->
        {Without(CHOOSE c \in children : c[key] = p, key)}]

\* groupChildrenBy: the children of each parent id, the key deleted from
\* every child
GroupChildrenBy(children, key) ==
    [p \in {c[key] : c \in children} |-> {Without(c, key) : c \in {x \in children : x[key] = p}}]

\* acc[parentId] || []
ChildrenOf(groups, parentId) == IF parentId \in DOMAIN groups THEN groups[parentId] ELSE {}

\* an object with one more property
With(o, key, value) == [c \in DOMAIN o \cup {key} |-> IF c = key THEN value ELSE o[c]]

\* step 4 of getAppData: the document assembled from the rows read
Assemble(d) ==
    LET updatesByActionPlan == GroupChildrenBy(Rows(d, "action_plan_updates"), "action_plan_id")
        plansByIndicator == GroupChildrenBy(Rows(d, "action_plans"), "indicator_id")
        by(t) == GroupChildrenBy(Rows(d, t), "indicator_id")
        plansOf(id) ==
            {With(p, "updates", ChildrenOf(updatesByActionPlan, p.id)) :
                p \in ChildrenOf(plansByIndicator, id)}
        assembled(i) ==
            [id |-> i.id, responsibleArea |-> i.responsibleArea, data |-> i.data,
             strategicGoalId |-> i.strategicGoalId,
             historicalData |-> ChildrenOf(by("historical_data"), i.id),
             goals |-> ChildrenOf(by("goals"), i.id),
             observations |-> ChildrenOf(by("observations"), i.id),
             risks |-> ChildrenOf(by("risks"), i.id),
             actionPlans |-> plansOf(i.id),
             attachments |-> ChildrenOf(by("attachments"), i.id),
             auditLog |-> ChildrenOf(by("audit_logs"), i.id)]
    IN  [users |-> {Without(u, "password") : u \in Rows(d, "users")},
         strategicGoals |-> Rows(d, "strategic_goals"),
         indicators |-> {assembled(i) : i \in Rows(d, "indicators")},
         meetings |->
            {With(m, "decisions",
                  ChildrenOf(GroupChildrenBy(Rows(d, "decisions"), "meeting_id"), m.id)) :
                m \in Rows(d, "meetings")},
         discussionThreads |->
            {With(t, "replies",
                  ChildrenOf(GroupChildrenBy(Rows(d, "thread_replies"), "thread_id"), t.id)) :
                t \in Rows(d, "discussion_threads")},
         notifications |-> Rows(d, "notifications")]

\* the foreign key of every child table grouped in step 3
GroupedBy ==
    [historical_data |-> "indicator_id", goals |-> "indicator_id",
     observations |-> "indicator_id", risks |-> "indicator_id",
     action_plans |-> "indicator_id", action_plan_updates |-> "action_plan_id",
     attachments |-> "indicator_id", audit_logs |-> "indicator_id",
     decisions |-> "meeting_id", thread_replies |-> "thread_id"]

\* one of the ten groupChildrenBy calls of step 3 throws
GroupingThrows(d) ==
    \E t \in DOMAIN GroupedBy : GroupChildrenByThrows(Rows(d, t), GroupedBy[t])

\* the queries of getAppData that may reject: none (0) or the n-th
FailingReads == 0..Len(ReadTables)

\* an answer that sends what was assembled from the tables read before the
\* failing query
PartialAnswer(d, failing) ==
    [status |-> 200, json |-> "document", failed |-> failing,
     body |-> Assemble([t \in DOMAIN d |->
                 IF failing = 0 \/ \E n \in 1..(failing - 1) : ReadTables[n] = t
                 THEN d[t] ELSE NoDb[t]])]

\* the answer of getAppData: the document, or 500 with a message when a
\* query rejected (Promise.all rejects, the catch block answers) or when
\* the grouping threw inside the same try block; failed records which query
\* rejected, and is one more than their number when the grouping threw
Answer(d, failing) ==
    IF failing = 0 /\ ~GroupingThrows(d)
    THEN [status |-> 200, json |-> "document", body |-> Assemble(d), failed |-> 0]
    ELSE [status |-> 500, json |-> "message", body |-> EmptyDocument,
          failed |-> IF failing = 0 THEN Len(ReadTables) + 1 ELSE failing]

\* getAppData served between two saves, or right after a save has answered
GetAppData ==
    /\ pc \in {"idle", "done"}
    /\ doc = NoDoc
    /\ \E failing \in FailingReads : doc' = Answer(db, failing)
    /\ pc' = IF pc = "idle" THEN "answered" ELSE pc
    /\ UNCHANGED <<rev, db, work, inTx, req, idx, err, resp, pre, written, last, hist, cc>>

\* documents with all six collections, and one thread whose id is an
\* inherited name
ReadBodies ==
    {BodyA, [BodyB EXCEPT !.strategicGoals = <<[id |-> 3, v |-> 1]>>],
     [EmptyBody EXCEPT !.has = Keys],
     [EmptyBody EXCEPT
        !.has = Keys,
        !.indicators =
            <<SubmittedIndicator(3, Finanzas, 1, <<[id |-> 3, v |-> 1], [id |-> 4, v |-> 2]>>,
                                 <<[id |-> 3, v |-> 1,
                                    updates |-> <<[id |-> 3, v |-> 1, attachment |-> NoAttachment],
                                                  [id |-> 4, v |-> 2, attachment |-> NoAttachment]>>]>>,
                                 <<1, 2>>)>>,
        !.meetings = <<[id |-> 1, v |-> 1,
                        decisions |-> <<[id |-> 1, v |-> 1], [id |-> 2, v |-> 2]>>]>>],
     [EmptyBody EXCEPT
        !.has = {"discussionThreads"},
        !.discussionThreads =
            <<[id |-> 9, v |-> 1, authorId |-> 2, timestamp |-> 1,
               replies |-> <<[id |-> 1, v |-> 1]>>]>>]}

ReadPrincipals == {Principal(1, Admin, Finanzas), Principal(2, Member, Operaciones)}

NextRead ==
    \/ BeginSave(ReadBodies, ReadPrincipals)
    \/ SaveUsers
    \/ SaveIndicator
    \/ SaveStrategicGoals
    \/ SaveMeetings
    \/ SaveThreads
    \/ SaveNotifications
    \/ QueryFails
    \/ Commit
    \/ Catch
    \/ Finish
    \/ GetAppData

SpecRead == Init /\ [][NextRead]_vars

----------------------------------------------------------------------------
(* The calls on the pool and on the connection, with the rejections that   *)
(* the statements of a block do not cover.                                 *)

\* pool.getConnection() rejects: the handler ends before its try block, no
\* connection is held and no response is sent
AcquireFails(bodies, actors) ==
    /\ pc = "idle"
    /\ \E body \in bodies, actor \in actors : req' = [body |-> body, user |-> actor]
    /\ pre' = db
    /\ err' = "storage"
    /\ pc' = "done"
    /\ hist' = [NoHist EXCEPT !.log = <<"getConnectionFailed">>]
    /\ UNCHANGED <<rev, db, work, inTx, idx, resp, written, last, doc, cc>>

\* connection.beginTransaction() rejects: control goes to the catch block
BeginFails(bodies, actors) ==
    /\ pc = "idle"
    /\ \E body \in bodies, actor \in actors :
          /\ ~(rev = 2 /\ PrelimDenied(body, actor))
          /\ req' = [body |-> body, user |-> actor]
    /\ pre' = db
    /\ err' = "storage"
    /\ pc' = "catch"
    /\ hist' = [NoHist EXCEPT !.log = <<"getConnection", "throw">>]
    /\ UNCHANGED <<rev, db, work, inTx, idx, resp, written, last, doc, cc>>

\* connection.rollback() rejects (the connection is lost and the server
\* discards its transaction): the catch block is left before it answers,
\* finally releases the connection
RollbackFails ==
    /\ pc = "catch"
    /\ inTx' = FALSE
    /\ work' = NoDb
    /\ pc' = "done"
    /\ hist' = [hist EXCEPT !.log = @ \o <<"rollbackFailed", "release">>]
    /\ UNCHANGED <<rev, db, req, idx, err, resp, pre, written, last, doc, cc>>

\* the first content with no key, one key, two keys or all six, and
\* strategic goals that repeat an id
LifecycleBodies ==
    {Restrict(BodyA, has) : has \in {{}, {"users"}, {"indicators", "strategicGoals"}, Keys}}
        \cup {Restrict(BodyB, {"strategicGoals"})}

NextLifecycle ==
    \/ BeginSave(LifecycleBodies, Principals)
    \/ AcquireFails(LifecycleBodies, Principals)
    \/ BeginFails(LifecycleBodies, Principals)
    \/ SaveUsers
    \/ SaveIndicator
    \/ SaveStrategicGoals
    \/ SaveMeetings
    \/ SaveThreads
    \/ SaveNotifications
    \/ QueryFails
    \/ Commit
    \/ Catch
    \/ RollbackFails
    \/ Finish

SpecLifecycle == Init /\ [][NextLifecycle]_vars

----------------------------------------------------------------------------
(* Two saves of the same full-replace collection on two connections, one   *)
(* statement at a time.  The storage engine is reached through ../db and   *)
(* is described only by its interface: each statement is atomic, a row     *)
(* written by a transaction stays locked until that transaction ends, a    *)
(* statement that needs a row locked by the other transaction waits, two   *)
(* transactions that wait for each other end with an error for one of      *)
(* them, and the isolation level is the engine's own setting: under        *)
(* "RR" a plain SELECT reads the snapshot of the transaction's first read  *)
(* and a DELETE locks the keys and gaps it scanned, under "RC" a plain     *)
(* SELECT reads what is committed and only existing rows are locked.       *)
(* The submitted meetings and threads carry no decisions and no replies,   *)
(* so the statements on the child tables find and insert no row.           *)

Sessions == {1, 2}

OtherSession(s) == IF s = 1 THEN 2 ELSE 1

\* ids of the rows of the collection
ConcIds == {1, 2}

FullReplace == {"strategicGoals", "meetings", "discussionThreads", "notifications"}

Isolation == {"RR", "RC"}

\* what session s submits for every entry of its collection
Payload(s) == IF s = 1 THEN "first" ELSE "second"

\* the collections whose ids are selected, the missing ones deleted and the
\* submitted ones upserted; the others are deleted whole and inserted
SelectsIds(c) == rev = 2 /\ c \in {"meetings", "discussionThreads"}

\* the collections inserted by one INSERT ... VALUES ? statement
OneInsert(c) == c \in {"strategicGoals", "notifications"}

NoRow == [val |-> "absent", by |-> 0, old |-> "absent"]

StoredRow == [val |-> "stored", by |-> 0, old |-> "absent"]

StartSession(sub) ==
    [pc |-> "start", sub |-> sub, seen |-> {}, snap |-> {}, snapped |-> FALSE, todo |-> sub]

Scenario(coll, iso, stored, sub1, sub2) ==
    [on |-> TRUE, coll |-> coll, iso |-> iso,
     rows |-> [id \in ConcIds |-> IF id \in stored THEN StoredRow ELSE NoRow],
     gap |-> {},
     ses |-> [s \in Sessions |-> StartSession(IF s = 1 THEN sub1 ELSE sub2)],
     order |-> <<>>]

InitConc ==
    /\ rev \in {1, 2}
    /\ db = SeedDb
    /\ work = NoDb
    /\ inTx = FALSE
    /\ pc = "idle"
    /\ req = NoReq
    /\ idx = 1
    /\ err = "none"
    /\ resp = 0
    /\ pre = NoDb
    /\ written = {}
    /\ last = NoLast
    /\ hist = NoHist
    /\ doc = NoDoc
    /\ cc \in {Scenario(coll, iso, stored, sub1, sub2) :
                  coll \in FullReplace, iso \in Isolation,
                  stored \in SUBSET ConcIds, sub1 \in SUBSET ConcIds, sub2 \in SUBSET ConcIds}

\* the committed version of a row
CommittedVal(r) == IF r.by = 0 THEN r.val ELSE r.old

\* the ids a plain SELECT of session s finds now
View(s) ==
    {id \in ConcIds :
        (IF cc.rows[id].by = s THEN cc.rows[id].val ELSE CommittedVal(cc.rows[id])) # "absent"}

\* session s writes value v to the keys ids and holds their locks
WriteRows(s, ids, v) ==
    [id \in ConcIds |->
        IF id \in ids
        THEN [val |-> v, by |-> s,
              old |-> IF cc.rows[id].by = s THEN cc.rows[id].old ELSE cc.rows[id].val]
        ELSE cc.rows[id]]

\* the transaction of session s ends: with keep its versions stay, else
\* the committed ones come back; its locks are released
EndRows(s, keep) ==
    [id \in ConcIds |->
        IF cc.rows[id].by = s
        THEN [val |-> IF keep THEN cc.rows[id].val ELSE cc.rows[id].old,
              by |-> 0, old |-> "absent"]
        ELSE cc.rows[id]]

LeastOf(S) == CHOOSE x \in S : \A y \in S : x <= y

\* the entries the next INSERT of session s carries
Batch(s) ==
    IF cc.ses[s].todo = {} THEN {}
    ELSE IF OneInsert(cc.coll) THEN cc.ses[s].todo ELSE {LeastOf(cc.ses[s].todo)}

LockedByOther(s, ids) == \E id \in ids : cc.rows[id].by = OtherSession(s)

\* the next statement of session s needs a lock the other session holds
Waits(s) ==
    LET me == cc.ses[s] IN
    CASE me.pc = "deleteMissing" -> LockedByOther(s, me.seen \ me.sub)
      [] me.pc = "upsert" -> LockedByOther(s, Batch(s))
      [] me.pc = "deleteAll" ->
            \E id \in ConcIds :
                /\ cc.rows[id].by = OtherSession(s)
                /\ (cc.rows[id].val # "absent" \/ cc.rows[id].old # "absent")
      [] me.pc = "insert" -> LockedByOther(s, Batch(s)) \/ OtherSession(s) \in cc.gap
      [] OTHER -> FALSE

OnlyConc == UNCHANGED <<rev, db, work, inTx, pc, req, idx, err, resp, pre, written, last, hist, doc>>

\* the handler reaches the block of the collection; the blocks before it
\* (users, indicators) may have read and so fixed the snapshot
ConcBegin(s) ==
    /\ cc.on /\ cc.ses[s].pc = "start"
    /\ \E early \in BOOLEAN :
          cc' = [cc EXCEPT
                    !.ses[s].snapped = (cc.iso = "RR" /\ early),
                    !.ses[s].snap = IF cc.iso = "RR" /\ early THEN View(s) ELSE {},
                    !.ses[s].pc = IF SelectsIds(cc.coll) THEN "select" ELSE "deleteAll"]
    /\ OnlyConc

\* SELECT id FROM meetings / discussion_threads
ConcSelect(s) ==
    /\ cc.on /\ cc.ses[s].pc = "select"
    /\ LET seen == IF cc.ses[s].snapped THEN cc.ses[s].snap ELSE View(s) IN
          cc' = [cc EXCEPT
                    !.ses[s].seen = seen,
                    !.ses[s].snapped = (cc.iso = "RR"),
                    !.ses[s].snap = IF cc.iso = "RR" THEN seen ELSE {},
                    !.ses[s].pc = IF seen \ cc.ses[s].sub # {} THEN "deleteMissing"
                                  ELSE IF cc.ses[s].sub = {} THEN "commit" ELSE "upsert"]
    /\ OnlyConc

\* DELETE ... WHERE id IN (idsToDelete)
ConcDeleteMissing(s) ==
    /\ cc.on /\ cc.ses[s].pc = "deleteMissing"
    /\ ~Waits(s)
    /\ LET ids == cc.ses[s].seen \ cc.ses[s].sub
           locked == IF cc.iso = "RR" THEN ids
                     ELSE {id \in ids : cc.rows[id].val # "absent"} IN
          cc' = [cc EXCEPT
                    !.rows = WriteRows(s, locked, "absent"),
                    !.ses[s].pc = IF cc.ses[s].sub = {} THEN "commit" ELSE "upsert"]
    /\ OnlyConc

\* INSERT ... ON DUPLICATE KEY UPDATE of the next entry
ConcUpsert(s) ==
    /\ cc.on /\ cc.ses[s].pc = "upsert"
    /\ ~Waits(s)
    /\ LET todo == cc.ses[s].todo \ Batch(s) IN
          cc' = [cc EXCEPT
                    !.rows = WriteRows(s, Batch(s), Payload(s)),
                    !.ses[s].todo = todo,
                    !.ses[s].pc = IF todo = {} THEN "commit" ELSE "upsert"]
    /\ OnlyConc

\* DELETE FROM the whole table
ConcDeleteAll(s) ==
    /\ cc.on /\ cc.ses[s].pc = "deleteAll"
    /\ ~Waits(s)
    /\ cc' = [cc EXCEPT
                 !.rows = WriteRows(s, {id \in ConcIds : cc.rows[id].val # "absent"}, "absent"),
                 !.gap = IF cc.iso = "RR" THEN @ \cup {s} ELSE @,
                 !.ses[s].pc = IF cc.ses[s].sub = {} THEN "commit" ELSE "insert"]
    /\ OnlyConc

\* plain INSERT of the next entries; an id that is stored again by now is a
\* duplicate key, which ends the save in the catch block
ConcInsert(s) ==
    /\ cc.on /\ cc.ses[s].pc = "insert"
    /\ ~Waits(s)
    /\ IF \E id \in Batch(s) : cc.rows[id].val # "absent"
       THEN cc' = [cc EXCEPT
                      !.rows = EndRows(s, FALSE),
                      !.gap = @ \ {s},
                      !.ses[s].pc = "failed"]
       ELSE LET todo == cc.ses[s].todo \ Batch(s) IN
            cc' = [cc EXCEPT
                      !.rows = WriteRows(s, Batch(s), Payload(s)),
                      !.ses[s].todo = todo,
                      !.ses[s].pc = IF todo = {} THEN "commit" ELSE "insert"]
    /\ OnlyConc

\* connection.commit() and the 200 answer
ConcCommit(s) ==
    /\ cc.on /\ cc.ses[s].pc = "commit"
    /\ cc' = [cc EXCEPT
                 !.rows = EndRows(s, TRUE),
                 !.gap = @ \ {s},
                 !.order = Append(@, s),
                 !.ses[s].pc = "committed"]
    /\ OnlyConc

\* both sessions wait for each other: the statement of session s is
\* rejected and its save ends in the catch block
ConcDeadlock(s) ==
    /\ cc.on
    /\ Waits(s) /\ Waits(OtherSession(s))
    /\ cc' = [cc EXCEPT
                 !.rows = EndRows(s, FALSE),
                 !.gap = @ \ {s},
                 !.ses[s].pc = "failed"]
    /\ OnlyConc

NextConc ==
    \/ \E s \in Sessions : ConcBegin(s)
    \/ \E s \in Sessions : ConcSelect(s)
    \/ \E s \in Sessions : ConcDeleteMissing(s)
    \/ \E s \in Sessions : ConcUpsert(s)
    \/ \E s \in Sessions : ConcDeleteAll(s)
    \/ \E s \in Sessions : ConcInsert(s)
    \/ \E s \in Sessions : ConcCommit(s)
    \/ \E s \in Sessions : ConcDeadlock(s)

SpecConc == InitConc /\ [][NextConc]_vars

----------------------------------------------------------------------------
(* Saves whose entries carry dates.                                        *)

CanonicalDates == {"2024-08-19 00:00:00", "2024-08-19 14:30:00"}

\* a canonical date, a dd/mm/yyyy date, an ISO-8601 instant and a string
\* that is no date
Dates == {"2024-08-19 00:00:00", "19/08/2024", "2024-08-19T14:30:00.000Z", "not-a-date"}

DatesIn(item) == {item[f] : f \in DateFields \cap DOMAIN item}

\* the dates the statements of block k bind
BoundDates(body, k) ==
    CASE k = "strategicGoals" -> UNION {DatesIn(g) : g \in Range(body.strategicGoals)}
      [] k = "meetings" ->
            UNION {DatesIn(m) \cup UNION {DatesIn(d) : d \in Range(m.decisions)} :
                      m \in Range(body.meetings)}
      [] k = "indicators" ->
            UNION {UNION {DatesIn(c) : c \in Range(i.actionPlans) \cup Range(i.risks)} :
                      i \in Range(body.indicators)}
      [] OTHER -> {}

\* the storage engine rejects a statement whose date parameter it cannot
\* read as a date (a date column in strict mode): the save ends in the catch
\* block like after any failing query
DateRejected ==
    /\ pc \in Keys
    /\ BoundDates(req.body, pc) \ CanonicalDates # {}
    /\ err' = "storage"
    /\ pc' = "catch"
    /\ hist' = [hist EXCEPT !.log = @ \o <<"incorrectDate", "throw">>]
    /\ UNCHANGED <<rev, db, work, inTx, req, idx, resp, pre, written, last, doc, cc>>

\* a strategic goal, a meeting with a decision and an indicator with an
\* action plan, each with the date d, alone and together
DateBodies ==
    LET goals(d) == <<[id |-> 2, v |-> 1, targetDate |-> d]>>
        meetings(d) == <<[id |-> 1, v |-> 2, date |-> d,
                          decisions |-> <<[id |-> 2, v |-> 1, dueDate |-> d]>>]>>
        indicators(d) ==
            <<SubmittedIndicator(1, Finanzas, 2, <<[id |-> 1, v |-> 2, createdDate |-> d]>>,
                                 <<[id |-> 1, v |-> 2, dueDate |-> d, createdDate |-> d,
                                    updates |-> <<>>]>>,
                                 <<>>)>>
        full(d) == [EmptyBody EXCEPT !.has = Keys, !.strategicGoals = goals(d),
                                     !.meetings = meetings(d), !.indicators = indicators(d)]
    IN  UNION {{Restrict(full(d), has) :
                   has \in {{"strategicGoals"}, {"meetings"}, {"indicators"},
                            {"indicators", "strategicGoals", "meetings"}}} : d \in Dates}

NextDates ==
    \/ BeginSave(DateBodies, {Principal(1, Admin, Finanzas)})
    \/ SaveIndicator
    \/ SaveStrategicGoals
    \/ SaveMeetings
    \/ DateRejected
    \/ QueryFails
    \/ Commit
    \/ Catch
    \/ Finish

SpecDates == Init /\ [][NextDates]_vars

----------------------------------------------------------------------------
(* register served for two requests at once.  Its SELECT and its INSERT    *)
(* are two pool.query calls with the hashing awaited between them and no   *)
(* transaction, so the statements of two requests interleave.  The users   *)
(* table has its primary key on id; whether the name carries a unique      *)
(* index is the schema's, which is not part of the sources.                *)

NoRegister == [pc |-> "start", body |-> NoUser, status |-> 0, salt |-> 0]

\* requests for ids that are free, under a name that is taken or free, and
\* one without a password
RaceBodies ==
    {[SubmittedUser(id, 2, pw) EXCEPT !.name = n] :
        id \in {3, 4}, n \in {2, 3}, pw \in {PlainPw(1)}}
        \cup {SubmittedUser(3, 2, NullPw)}

InitRegister ==
    /\ rev \in {1, 2}
    /\ db = SeedDb
    /\ work = NoDb
    /\ inTx = FALSE
    /\ pc = "idle"
    /\ req = NoReq
    /\ idx = 1
    /\ err = "none"
    /\ resp = 0
    /\ pre = NoDb
    /\ written = {}
    /\ last = NoLast
    /\ hist = NoHist
    /\ doc = NoDoc
    /\ cc = [on |-> FALSE, reg |-> [s \in Sessions |-> NoRegister]]

OnlyRegister == UNCHANGED <<rev, work, inTx, pc, req, idx, err, resp, pre, written, last, hist, doc>>

\* the request arrives: 400 when a required field is missing
RegisterBegin(s) ==
    /\ cc.reg[s].pc = "start"
    /\ \E body \in RaceBodies :
          cc' = [cc EXCEPT !.reg[s] =
                    IF ~Truthy(body.password)
                    THEN [pc |-> "done", body |-> body, status |-> 400, salt |-> 0]
                    ELSE [pc |-> "select", body |-> body, status |-> 0, salt |-> 0]]
    /\ db' = db
    /\ OnlyRegister

\* SELECT * FROM users WHERE id = ? OR name = ?: 409 when a row is found,
\* else the password is hashed
RegisterSelect(s) ==
    /\ cc.reg[s].pc = "select"
    /\ LET body == cc.reg[s].body
           existingUser == {k \in DOMAIN db.users : k = body.id \/ db.users[k].name = body.name}
       IN  \E salt \in Salts :
              cc' = [cc EXCEPT !.reg[s] =
                        IF existingUser # {}
                        THEN [pc |-> "done", body |-> body, status |-> 409, salt |-> 0]
                        ELSE [pc |-> "insert", body |-> body, status |-> 0, salt |-> salt]]
    /\ db' = db
    /\ OnlyRegister

\* INSERT INTO users SET ?: 201, or 500 from the catch block when the
\* engine rejects the row (duplicate id, or duplicate name under a unique
\* index)
RegisterInsert(s) ==
    /\ cc.reg[s].pc = "insert"
    /\ LET body == cc.reg[s].body
           newUser == [name |-> body.name, role |-> body.role, area |-> body.area,
                       password |-> BcryptHash(body.password, cc.reg[s].salt),
                       readThreadIds |-> StringifyReadThreadIds(body.readThreadIds)]
           nameTaken == \E k \in DOMAIN db.users : db.users[k].name = body.name
       IN  \E nameIsUnique \in BOOLEAN :
              IF body.id \in DOMAIN db.users \/ (nameTaken /\ nameIsUnique)
              THEN /\ cc' = [cc EXCEPT !.reg[s].pc = "done", !.reg[s].status = 500]
                   /\ db' = db
              ELSE /\ cc' = [cc EXCEPT !.reg[s].pc = "done", !.reg[s].status = 201]
                   /\ db' = [db EXCEPT !.users = Upsert(@, body.id, newUser)]
    /\ OnlyRegister

\* both requests have answered; the next two may arrive
RegisterDone ==
    /\ \A s \in Sessions : cc.reg[s].pc = "done"
    /\ cc' = [cc EXCEPT !.reg = [s \in Sessions |-> NoRegister]]
    /\ db' = db
    /\ OnlyRegister

NextRegister ==
    \/ \E s \in Sessions : RegisterBegin(s)
    \/ \E s \in Sessions : RegisterSelect(s)
    \/ \E s \in Sessions : RegisterInsert(s)
    \/ RegisterDone

SpecRegister == InitRegister /\ [][NextRegister]_vars

----------------------------------------------------------------------------
(* saveAppData statement by statement.  Every write of a block is one      *)
(* awaited connection.query; the statements of a block are listed in the   *)
(* order the code issues them and run one at a time on the working copy.   *)
(* cc holds the position in the list, the tables at the head of the block  *)
(* (the result of its SELECT id) and the statements executed so far.       *)

St(k, op, t, arg) == [k |-> k, op |-> op, t |-> t, arg |-> arg]

RECURSIVE Flatten(_)
Flatten(ss) == IF ss = <<>> THEN <<>> ELSE Head(ss) \o Flatten(Tail(ss))

\* INSERT ... VALUES ? with all rows when there is a row to insert
BulkInsert(k, t, rows) == IF Len(rows) = 0 THEN <<>> ELSE <<St(k, "insert", t, rows)>>

\* syncSubCollection inserts all rows in one statement, deleteAndInsert and
\* the loop over p.updates of the second revision one row per statement
Inserts(r, k, op, t, rows) ==
    IF Len(rows) = 0 THEN <<>>
    ELSE IF r = 1 THEN <<St(k, op, t, rows)>>
    ELSE [i \in DOMAIN rows |-> St(k, op, t, <<rows[i]>>)]

\* syncSubCollection / deleteAndInsert: the DELETE by parent, then the INSERT
SubCollectionStatements(r, t, parentId, coll) ==
    <<St("indicators", "deleteByParent", t, [fk |-> "indicator_id", parents |-> {parentId}])>>
    \o (IF t \in {"historical_data", "goals"}
        THEN Inserts(r, "indicators", "insertPlain", t,
                     [i \in DOMAIN coll |-> [indicator_id |-> parentId, v |-> coll[i]]])
        ELSE Inserts(r, "indicators", "insert", t, ChildRows(coll, "indicator_id", parentId)))

\* the writes of one iteration of the loop over dataToSave.indicators
IndicatorStatements(r, ind) ==
    <<St("indicators", "upsert", "indicators", [id |-> ind.id, row |-> IndicatorRow(ind)])>>
    \o SubCollectionStatements(r, "historical_data", ind.id, ind.historicalData)
    \o SubCollectionStatements(r, "goals", ind.id, ind.goals)
    \o SubCollectionStatements(r, "observations", ind.id, ind.observations)
    \o SubCollectionStatements(r, "risks", ind.id, ind.risks)
    \o SubCollectionStatements(r, "attachments", ind.id, ind.attachments)
    \o SubCollectionStatements(r, "audit_logs", ind.id, ind.auditLog)
    \o <<St("indicators", "deleteUpdatesOfPlansOf", "action_plan_updates", ind.id),
         St("indicators", "deleteByParent", "action_plans",
            [fk |-> "indicator_id", parents |-> {ind.id}])>>
    \o Flatten([i \in DOMAIN ind.actionPlans |->
                  <<St("indicators", "insert", "action_plans",
                       SubSeq(PlanRows(ind.actionPlans, ind.id), i, i))>>
                  \o Inserts(r, "indicators", "insert", "action_plan_updates",
                             UpdateRows(ind.actionPlans[i]))])

\* a parent table emptied before its child table
ParentChildStatementsParentFirst(r, k, parentT, childT, fk, toDelete, ids, parentSts, childRows) ==
    (IF r = 1
     THEN <<St(k, "deleteAll", parentT, {}), St(k, "deleteAll", childT, {})>>
     ELSE IF toDelete = {} THEN <<>>
     ELSE <<St(k, "deleteIds", parentT, toDelete),
            St(k, "deleteByParent", childT, [fk |-> fk, parents |-> toDelete])>>)
    \o Flatten([i \in DOMAIN ids |->
                  (IF r = 1 THEN <<parentSts[i]>>
                   ELSE <<parentSts[i],
                          St(k, "deleteByParent", childT,
                             [fk |-> fk, parents |-> {ids[i]}])>>)
                  \o BulkInsert(k, childT, childRows[i])])

\* the meetings block and the discussionThreads block: the first revision
\* empties the child table, then the parent table; the second deletes the
\* children of the ids to delete, then those ids, and for each item upserts
\* the parent and deletes its children; both then insert the children.
\* ids, parentSts and childRows give for each submitted item its id, the
\* statement that writes its row and the rows of its children
ParentChildStatements(r, k, parentT, childT, fk, toDelete, ids, parentSts, childRows) ==
    (IF r = 1
     THEN <<St(k, "deleteAll", childT, {}), St(k, "deleteAll", parentT, {})>>
     ELSE IF toDelete = {} THEN <<>>
     ELSE <<St(k, "deleteByParent", childT, [fk |-> fk, parents |-> toDelete]),
            St(k, "deleteIds", parentT, toDelete)>>)
    \o Flatten([i \in DOMAIN ids |->
                  (IF r = 1 THEN <<parentSts[i]>>
                   ELSE <<parentSts[i],
                          St(k, "deleteByParent", childT,
                             [fk |-> fk, parents |-> {ids[i]}])>>)
                  \o BulkInsert(k, childT, childRows[i])])

MeetingsStatements(r, w0, ms) ==
    LET parentSt(m) ==
            IF r = 1
            THEN St("meetings", "insert", "meetings",
                    <<[id |-> m.id, row |-> Dated([v |-> m.v], m)]>>)
            ELSE St("meetings", "upsert", "meetings",
                    [id |-> m.id, row |-> Dated([v |-> m.v], m)])
    IN  ParentChildStatements(r, "meetings", "meetings", "decisions", "meeting_id",
                              MeetingIdsToDelete(w0, ms), [i \in DOMAIN ms |-> ms[i].id],
                              [i \in DOMAIN ms |-> parentSt(ms[i])],
                              [i \in DOMAIN ms |-> DecisionRows(ms[i])])

ThreadsStatements(r, w0, ts) ==
    LET parentSt(t) ==
            IF r = 1
            THEN St("discussionThreads", "insert", "discussion_threads",
                    <<[id |-> t.id, row |-> ThreadRow(t)]>>)
            ELSE St("discussionThreads", "upsertThread", "discussion_threads", t)
    IN  ParentChildStatements(r, "discussionThreads", "discussion_threads",
                              "thread_replies", "thread_id",
                              ThreadIdsToDelete(w0, ts), [i \in DOMAIN ts |-> ts[i].id],
                              [i \in DOMAIN ts |-> parentSt(ts[i])],
                              [i \in DOMAIN ts |-> ReplyRows(ts[i])])

\* the writes of block k (of iteration i of the indicators block) of
\* revision r for a body, w0 being the tables at the head of the block
Statements(r, w0, body, k, i) ==
    CASE k = "indicators" -> IndicatorStatements(r, body.indicators[i])
      [] k = "strategicGoals" ->
            <<St(k, "deleteAll", "strategic_goals", {})>>
            \o BulkInsert(k, "strategic_goals", ValueRows(body.strategicGoals))
      [] k = "meetings" -> MeetingsStatements(r, w0, body.meetings)
      [] k = "discussionThreads" -> ThreadsStatements(r, w0, body.discussionThreads)
      [] k = "notifications" ->
            <<St(k, "deleteAll", "notifications", {})>>
            \o BulkInsert(k, "notifications", ValueRows(body.notifications))

\* one statement on the working copy: ok is FALSE when it fails
Exec(s, w) ==
    CASE s.op = "deleteAll" -> [ok |-> TRUE, w |-> [w EXCEPT ![s.t] = EmptyTable]]
      [] s.op = "deleteIds" -> [ok |-> TRUE, w |-> [w EXCEPT ![s.t] = DeleteIds(@, s.arg)]]
      [] s.op = "deleteByParent" ->
            [ok |-> TRUE,
             w |-> [w EXCEPT ![s.t] =
                      IF s.t \in {"historical_data", "goals"}
                      THEN {x \in @ : x.indicator_id \notin s.arg.parents}
                      ELSE DeleteByParents(@, s.arg.fk, s.arg.parents)]]
      [] s.op = "deleteUpdatesOfPlansOf" ->
            [ok |-> TRUE,
             w |-> [w EXCEPT !.action_plan_updates =
                      DeleteByParents(@, "action_plan_id",
                          {p \in DOMAIN w.action_plans :
                              w.action_plans[p].indicator_id = s.arg})]]
      [] s.op = "insert" ->
            LET ins == InsertRows(w[s.t], s.arg, 1)
            IN  [ok |-> ins.ok, w |-> [w EXCEPT ![s.t] = ins.t]]
      [] s.op = "insertPlain" -> [ok |-> TRUE, w |-> [w EXCEPT ![s.t] = @ \cup Range(s.arg)]]
      [] s.op = "upsert" ->
            [ok |-> TRUE, w |-> [w EXCEPT ![s.t] = Upsert(@, s.arg.id, s.arg.row)]]
      [] s.op = "upsertThread" ->
            [ok |-> TRUE, w |-> [w EXCEPT ![s.t] = UpsertThread(@, s.arg)]]

\* the position after block k in Order
After(k) == 1 + CHOOSE n \in DOMAIN Order : Order[n] = k

\* all six collections at once, a meeting and a thread that replace the
\* stored ones, and an indicator with a plan that carries two updates
OrderBodies ==
    {BodyA, Restrict(BodyB, {"meetings", "discussionThreads", "notifications"}),
     [EmptyBody EXCEPT
        !.has = {"indicators"},
        !.indicators =
            <<SubmittedIndicator(1, Finanzas, 1, <<[id |-> 1, v |-> 1]>>,
                                 <<[id |-> 1, v |-> 1,
                                    updates |-> <<[id |-> 1, v |-> 1, attachment |-> NoAttachment],
                                                  [id |-> 2, v |-> 1, attachment |-> NoAttachment]>>]>>,
                                 <<1>>)>>]}

OrderBegin ==
    /\ pc = "idle"
    /\ \E body \in OrderBodies,
          actor \in {Principal(1, Admin, Finanzas), Principal(2, Member, Operaciones)} :
          Enter(body, actor)
    /\ hist' = [NoHist EXCEPT !.log = EnterEvents(req'.body, req'.user)]
    /\ cc' = [on |-> FALSE, pos |-> 1, start |-> db, trace |-> <<>>]
    /\ UNCHANGED <<rev, db, idx, resp, last, doc>>

\* the users block as one step
OrderUsers ==
    /\ pc = "users"
    /\ IF rev = 1 /\ BlockDenied1("users", req.user)
       THEN Throw("auth", work, {})
       ELSE /\ \E salts \in SaltChoices(req.body.users) :
                 work' = [work EXCEPT !.users = SyncUsers(@, req.body.users, req.user, salts)]
            /\ written' = written \cup {pc}
            /\ pc' = NextPc(req.body, After(pc))
            /\ hist' = [hist EXCEPT !.log = Append(@, pc)]
            /\ cc' = [cc EXCEPT !.start = work', !.trace = Append(@, St(pc, "syncUsers", "users", {}))]
            /\ UNCHANGED <<rev, db, inTx, req, idx, err, resp, pre, last, doc>>

\* the check at the head of the block (of the iteration), then the next
\* statement of the block
OrderStatement ==
    /\ pc \in Keys \ {"users"}
    /\ LET ss == Statements(rev, cc.start, req.body, pc, idx)
           denied == \/ rev = 1 /\ BlockDenied1(pc, req.user)
                     \/ /\ pc = "indicators"
                        /\ IndicatorDenied(rev, cc.start, req.body.indicators[idx], req.user)
       IN  /\ cc.pos <= Len(ss)
           /\ IF cc.pos = 1 /\ denied THEN Throw("auth", work, {})
              ELSE LET out == Exec(ss[cc.pos], work)
                   IN  IF ~out.ok THEN Throw("storage", out.w, {pc})
                       ELSE /\ work' = out.w
                            /\ written' = written \cup {pc}
                            /\ cc' = [cc EXCEPT !.pos = @ + 1, !.trace = Append(@, ss[cc.pos])]
                            /\ UNCHANGED <<rev, db, inTx, pc, req, idx, err, resp, pre,
                                           last, hist, doc>>

\* the statements of the block (of the iteration) are done
OrderBlockEnd ==
    /\ pc \in Keys \ {"users"}
    /\ cc.pos > Len(Statements(rev, cc.start, req.body, pc, idx))
    /\ written' = written \cup {pc}
    /\ IF pc = "indicators" /\ idx < Len(req.body.indicators)
       THEN idx' = idx + 1 /\ pc' = pc
       ELSE idx' = 1 /\ pc' = NextPc(req.body, After(pc))
    /\ hist' = [hist EXCEPT !.log = Append(@, pc)]
    /\ cc' = [cc EXCEPT !.pos = 1, !.start = work]
    /\ UNCHANGED <<rev, db, work, inTx, req, err, resp, pre, last, doc>>

OrderFinish ==
    /\ pc = "done"
    /\ pc' = "idle"
    /\ req' = NoReq
    /\ pre' = NoDb
    /\ idx' = 1
    /\ err' = "none"
    /\ resp' = 0
    /\ written' = {}
    /\ hist' = NoHist
    /\ cc' = NoCc
    /\ UNCHANGED <<rev, db, work, inTx, last, doc>>

NextOrder ==
    \/ OrderBegin
    \/ OrderUsers
    \/ OrderStatement
    \/ OrderBlockEnd
    \/ QueryFails
    \/ Commit
    \/ Catch
    \/ OrderFinish

SpecOrder == Init /\ [][NextOrder]_vars

\* the block steps of saveAppData and the statements of a block agree: when
\* the statements of a block are done the working copy is the one the block
\* step gives from the tables at the head of the block
BlockOf(r, w0, body, k, i) ==
    CASE k = "indicators" -> WriteIndicator(w0, body.indicators[i])
      [] k = "strategicGoals" -> SyncStrategicGoals(w0, body.strategicGoals)
      [] k = "meetings" -> SyncMeetings(r, w0, body.meetings)
      [] k = "discussionThreads" -> SyncThreads(r, w0, body.discussionThreads)
      [] k = "notifications" -> SyncNotifications(w0, body.notifications)

StatementsAgreeWithBlocks ==
    (/\ pc \in Keys \ {"users"}
     /\ "pos" \in DOMAIN cc
     /\ cc.pos > Len(Statements(rev, cc.start, req.body, pc, idx)))
        => LET out == BlockOf(rev, cc.start, req.body, pc, idx)
           IN  out.ok /\ out.w = work

----------------------------------------------------------------------------
(* Saves under a users table that changes between them.  The principal of  *)
(* a request is the payload of its token (authMiddleware: req.user =       *)
(* decoded), so a principal may act whose user row was deleted or changed  *)
(* after the token was issued.  When a request is over, cc may keep what   *)
(* was observed of it for the comparison with a later request.             *)

\* the stored responsibleArea of every submitted indicator that is stored
StoredAreas(d, body) ==
    [id \in IdSet(body.indicators) \cap DOMAIN d.indicators |->
        d.indicators[id].responsibleArea]

\* the stored risk ids of every submitted indicator
StoredRisks(d, body) ==
    [id \in IdSet(body.indicators) |->
        {k \in DOMAIN d.risks : d.risks[k].indicator_id = id}]

\* the request that has just been answered: its payload, the role and area
\* of its principal, what was stored for its indicators when it entered,
\* and separately the users table it met and its authorization outcome
Observed ==
    [key |-> [body |-> req.body, role |-> req.user.role, area |-> req.user.area,
              areas |-> StoredAreas(pre, req.body), risks |-> StoredRisks(pre, req.body)],
     users |-> pre.users,
     out |-> IF err = "auth" THEN 403 ELSE 200]

\* an administrator empties the users table but for themselves or makes
\* user 2 an administrator; indicator 1 with its stored risk, without it,
\* and moved to the other area; a new indicator; a meeting
AuthBodies ==
    {[EmptyBody EXCEPT !.has = {"users"}],
     [EmptyBody EXCEPT !.has = {"users"}, !.users = <<SubmittedUser(2, 1, NullPw)>>],
     [EmptyBody EXCEPT !.has = {"meetings"},
                       !.meetings = <<[id |-> 1, v |-> 1, decisions |-> <<>>]>>]}
    \cup {[EmptyBody EXCEPT !.has = {"indicators"}, !.indicators = <<ind>>] :
            ind \in {SubmittedIndicator(1, Finanzas, 1, <<[id |-> 1, v |-> 1]>>, <<>>, <<>>),
                     SubmittedIndicator(1, Finanzas, 1, <<>>, <<>>, <<>>),
                     SubmittedIndicator(1, Operaciones, 1, <<[id |-> 1, v |-> 1]>>, <<>>, <<>>),
                     SubmittedIndicator(3, Finanzas, 1, <<>>, <<>>, <<>>)}}

AuthPrincipals ==
    {Principal(1, Admin, Finanzas), Principal(2, Manager, Finanzas),
     Principal(2, Member, Operaciones)}

\* the request is over; what was observed of it is kept for a later
\* comparison, or what was kept before stays
AuthFinish ==
    /\ pc = "done"
    /\ pc' = "idle"
    /\ req' = NoReq
    /\ pre' = NoDb
    /\ idx' = 1
    /\ err' = "none"
    /\ resp' = 0
    /\ written' = {}
    /\ hist' = NoHist
    /\ \/ cc' = cc
       \/ err # "storage" /\ cc' = [on |-> FALSE, ref |-> Observed]
    /\ UNCHANGED <<rev, db, work, inTx, last, doc>>

NextAuth ==
    \/ BeginSave(AuthBodies, AuthPrincipals)
    \/ SaveUsers
    \/ SaveIndicator
    \/ SaveMeetings
    \/ Commit
    \/ Catch
    \/ AuthFinish

SpecAuth == Init /\ [][NextAuth]_vars

----------------------------------------------------------------------------
(* getAppData served while saves commit.  Its sixteen SELECTs are separate *)
(* pool.query calls outside any transaction: the six of the first          *)
(* Promise.all are issued together and run in any order, the ten of the    *)
(* second after the first have all answered, and each reads the tables as  *)
(* committed when it runs.  cc holds the rows read so far and the          *)
(* committed states the tables went through since the read began.          *)

\* the queries of the first Promise.all
ParentQueries == {ReadTables[n] : n \in 1..6}

\* a read is being served and has not answered
Reading == "got" \in DOMAIN cc /\ doc = NoDoc

ReadStart ==
    /\ cc = NoCc
    /\ doc = NoDoc
    /\ cc' = [on |-> FALSE, got |-> [t \in {} |-> {}], states |-> {db}]
    /\ UNCHANGED <<rev, db, work, inTx, pc, req, idx, err, resp, pre, written, last, hist, doc>>

\* one SELECT answers with the rows committed now
ReadQuery ==
    /\ Reading
    /\ \E t \in Range(ReadTables) \ DOMAIN cc.got :
          /\ t \notin ParentQueries => ParentQueries \subseteq DOMAIN cc.got
          /\ cc' = [cc EXCEPT !.got = [u \in DOMAIN cc.got \cup {t} |->
                                          IF u = t THEN db[t] ELSE cc.got[u]]]
    /\ UNCHANGED <<rev, db, work, inTx, pc, req, idx, err, resp, pre, written, last, hist, doc>>

\* one SELECT rejects: the catch block answers 500
ReadRejected ==
    /\ Reading
    /\ \E n \in DOMAIN ReadTables :
          /\ ReadTables[n] \notin DOMAIN cc.got
          /\ doc' = Answer(db, n)
    /\ UNCHANGED <<rev, db, work, inTx, pc, req, idx, err, resp, pre, written, last, hist, cc>>

\* steps 3 and 4 and res.json on the rows the sixteen queries returned
ReadAnswer ==
    /\ Reading
    /\ DOMAIN cc.got = Range(ReadTables)
    /\ doc' = Answer(cc.got, 0)
    /\ UNCHANGED <<rev, db, work, inTx, pc, req, idx, err, resp, pre, written, last, hist, cc>>

ReadOver ==
    /\ "got" \in DOMAIN cc
    /\ doc # NoDoc
    /\ doc' = NoDoc
    /\ cc' = NoCc
    /\ UNCHANGED <<rev, db, work, inTx, pc, req, idx, err, resp, pre, written, last, hist>>

\* connection.commit() of a save, seen from the read in progress
SnapshotCommit ==
    /\ pc = "commit"
    /\ db' = Committed(db, work)
    /\ inTx' = FALSE
    /\ work' = NoDb
    /\ resp' = 200
    /\ pc' = "done"
    /\ hist' = [hist EXCEPT !.log = @ \o CommitEvents]
    /\ cc' = IF "got" \in DOMAIN cc THEN [cc EXCEPT !.states = @ \cup {db'}] ELSE cc
    /\ UNCHANGED <<rev, req, idx, err, pre, written, last, doc>>

\* the save is over
SnapshotFinish ==
    /\ pc = "done"
    /\ pc' = "idle"
    /\ req' = NoReq
    /\ pre' = NoDb
    /\ idx' = 1
    /\ err' = "none"
    /\ resp' = 0
    /\ written' = {}
    /\ hist' = NoHist
    /\ UNCHANGED <<rev, db, work, inTx, last, doc, cc>>

\* a meeting with a decision that replaces the stored meeting and its
\* decision
SnapshotBodies ==
    {[EmptyBody EXCEPT !.has = {"meetings"},
                       !.meetings = <<[id |-> 2, v |-> 1,
                                       decisions |-> <<[id |-> 2, v |-> 1]>>]>>]}

NextSnapshot ==
    \/ BeginSave(SnapshotBodies, {Principal(1, Admin, Finanzas)})
    \/ SaveMeetings
    \/ SnapshotCommit
    \/ SnapshotFinish
    \/ ReadStart
    \/ ReadQuery
    \/ ReadRejected
    \/ ReadAnswer
    \/ ReadOver

SpecSnapshot == Init /\ [][NextSnapshot]_vars

----------------------------------------------------------------------------
(* login served while a save commits.  The SELECT of login and its UPDATE  *)
(* are two pool.query calls with genSalt and hash awaited between them and *)
(* no transaction; the UPDATE names the row by id only.  cc holds the row  *)
(* login read, what it compared and what its UPDATE replaced.              *)

NoLogin == [stage |-> "none", id |-> 0, pw |-> NullPw, compared |-> NullPw,
            replaced |-> NullPw, wrote |-> FALSE, status |-> 0]

\* user 2 is stored with a plain-text password
InitUpgrade ==
    /\ rev \in {1, 2}
    /\ \E p \in Passwords :
          db = [SeedDb EXCEPT !.users = (1 :> StoredUser(1, HashPw(1, 1)))
                                        @@ (2 :> StoredUser(2, PlainPw(p)))]
    /\ work = NoDb
    /\ inTx = FALSE
    /\ pc = "idle"
    /\ req = NoReq
    /\ idx = 1
    /\ err = "none"
    /\ resp = 0
    /\ pre = NoDb
    /\ written = {}
    /\ last = NoLast
    /\ hist = NoHist
    /\ doc = NoDoc
    /\ cc = [on |-> FALSE, login |-> NoLogin]

\* SELECT * FROM users WHERE name = ?; 401 when no row has the name or the
\* password does not match; a matching hash is answered 200; a matching
\* plain-text password goes on to its upgrade
LoginSelect ==
    /\ cc.login.stage = "none"
    /\ \E name \in {2}, pw \in {PlainPw(p) : p \in Passwords} :
          LET rows == {k \in DOMAIN db.users : db.users[k].name = name}
          IN  IF rows = {}
              THEN cc' = [cc EXCEPT !.login = [NoLogin EXCEPT !.stage = "done", !.pw = pw,
                                                              !.status = 401]]
              ELSE \E k \in rows :
                     LET stored == db.users[k].password
                     IN  cc' = [cc EXCEPT !.login =
                                  [NoLogin EXCEPT
                                     !.stage = IF Upgrades(pw, stored) THEN "hashed" ELSE "done",
                                     !.id = k, !.pw = pw, !.compared = stored,
                                     !.status = IF IsMatch(pw, stored) THEN 200 ELSE 401]]
    /\ UNCHANGED <<rev, db, work, inTx, pc, req, idx, err, resp, pre, written, last, hist, doc>>

\* UPDATE users SET password = ? WHERE id = ?, then the token and 200
LoginUpdate ==
    /\ cc.login.stage = "hashed"
    /\ \E s \in Salts :
          LET k == cc.login.id
              there == k \in DOMAIN db.users
          IN  /\ db' = IF there
                       THEN [db EXCEPT !.users[k].password = BcryptHash(cc.login.pw, s)]
                       ELSE db
              /\ cc' = [cc EXCEPT !.login.stage = "done",
                                  !.login.wrote = there,
                                  !.login.replaced = IF there THEN db.users[k].password
                                                     ELSE NullPw]
    /\ UNCHANGED <<rev, work, inTx, pc, req, idx, err, resp, pre, written, last, hist, doc>>

\* login has answered
LoginOver ==
    /\ cc.login.stage = "done"
    /\ cc' = [cc EXCEPT !.login = NoLogin]
    /\ UNCHANGED <<rev, db, work, inTx, pc, req, idx, err, resp, pre, written, last, hist, doc>>

\* the administrator sets a new password for user 2, or sends none
UpgradeBodies ==
    {[EmptyBody EXCEPT !.has = {"users"}, !.users = <<SubmittedUser(2, 2, pw)>>] :
        pw \in {NullPw} \cup {PlainPw(p) : p \in Passwords}}

NextUpgrade ==
    \/ BeginSave(UpgradeBodies, {Principal(1, Admin, Finanzas)})
    \/ SaveUsers
    \/ Commit
    \/ Finish
    \/ LoginSelect
    \/ LoginUpdate
    \/ LoginOver

SpecUpgrade == InitUpgrade /\ [][NextUpgrade]_vars

----------------------------------------------------------------------------
(* The same request submitted twice in succession.                         *)

\* the client sends the request just answered once more: saveAppData is
\* entered with the same body and principal
Resubmit ==
    /\ pc = "done"
    /\ hist.round = 1
    /\ Enter(req.body, req.user)
    /\ hist' = [log |-> EnterEvents(req.body, req.user), round |-> 2,
                first |-> [resp |-> resp, err |-> err, db |-> db]]
    /\ resp' = 0
    /\ idx' = 1
    /\ UNCHANGED <<rev, db, last, doc, cc>>

\* users with and without a plain password, an indicator moved to another
\* area with its stored risk, the first content with one key or all six,
\* strategic goals that repeat an id, and the replaced collections
TwiceBodies ==
    {[EmptyBody EXCEPT !.has = {"users"},
                       !.users = <<SubmittedUser(1, 1, NullPw), SubmittedUser(2, 2, PlainPw(2))>>],
     [EmptyBody EXCEPT !.has = {"users"}, !.users = <<SubmittedUser(2, 2, PrefixOnlyPw)>>],
     [EmptyBody EXCEPT !.has = {"indicators"},
                       !.indicators = <<SubmittedIndicator(1, Operaciones, 1, <<[id |-> 1, v |-> 1]>>,
                                                           <<>>, <<1>>)>>],
     Restrict(BodyA, {"indicators"}), Restrict(BodyA, Keys), Restrict(BodyB, {"strategicGoals"})}
    \cup {[EmptyBody EXCEPT !.has = {"meetings"}, !.meetings = c] : c \in MeetingsContents}
    \cup {[EmptyBody EXCEPT !.has = {"discussionThreads"}, !.discussionThreads = c] :
            c \in ThreadsContents}

TwicePrincipals ==
    {Principal(1, Admin, Finanzas), Principal(2, Manager, Finanzas),
     Principal(2, Member, Operaciones)}

NextTwice ==
    \/ BeginSave(TwiceBodies, TwicePrincipals)
    \/ Resubmit
    \/ SaveUsers
    \/ SaveIndicator
    \/ SaveStrategicGoals
    \/ SaveMeetings
    \/ SaveThreads
    \/ SaveNotifications
    \/ QueryFails
    \/ Commit
    \/ Catch
    \/ Finish

SpecTwice == Init /\ [][NextTwice]_vars

----------------------------------------------------------------------------
(* Properties of one save request.                                         *)

\* the tables a top-level key of the body stands for
TablesOf(k) ==
    CASE k = "users" -> {"users"}
      [] k = "indicators" ->
            {"indicators", "historical_data", "goals", "observations", "risks",
             "action_plans", "action_plan_updates", "attachments", "audit_logs"}
      [] k = "strategicGoals" -> {"strategic_goals"}
      [] k = "meetings" -> {"meetings", "decisions"}
      [] k = "discussionThreads" -> {"discussion_threads", "thread_replies"}
      [] k = "notifications" -> {"notifications"}

\* the response was sent and the connection released
Responded == pc = "done"

\* a save is running or has just answered
InSave == pc \notin {"idle", "answered"}

\* C1: a save in which a step raised an error (err is set) is answered 403 or
\* 500 and leaves every committed table as it was when the request entered;
\* and until a save has answered 200 no write of it is committed.
C1_Atomicity ==
    /\ (InSave /\ resp # 200) => db = pre
    /\ (Responded /\ err # "none") => resp \in {403, 500} /\ db = pre

\* an error was raised after blocks of the request had been written, and the
\* request was answered
C1_Witness ==
    /\ Responded
    /\ err = "storage"
    /\ {"users", "indicators", "meetings"} \subseteq written
    /\ db = pre


\* the body holds an indicator whose stored responsibleArea (when the
\* request entered) is not the area of the principal, an area manager
ManagerOfOtherArea ==
    /\ req.user.role = Manager
    /\ "indicators" \in req.body.has
    /\ \E i \in DOMAIN req.body.indicators :
          /\ req.body.indicators[i].id \in DOMAIN pre.indicators
          /\ pre.indicators[req.body.indicators[i].id].responsibleArea # req.user.area

\* C2: a save by an area manager whose body holds an indicator stored under
\* another area is never committed: no table changes, and the answer is 403
\* (500 only when a statement failed before the check was reached).
C2_ManagerOtherAreaRejected ==
    (Responded /\ ManagerOfOtherArea) =>
        /\ db = pre
        /\ resp # 200
        /\ (resp = 403 \/ err = "storage")

\* the offending indicator came after an indicator of the same body that
\* had been written, and the save was answered 403
C2_Witness ==
    /\ Responded
    /\ ManagerOfOtherArea
    /\ resp = 403
    /\ "indicators" \in written
    /\ db = pre

\* the principal may not manage a collection the body holds
CollectionForbidden ==
    \/ req.user.role # Admin /\ req.body.has \cap {"users", "strategicGoals"} # {}
    \/ req.user.role \notin {Admin, Oversight} /\ "meetings" \in req.body.has

\* C3: a save whose body holds users or strategicGoals and whose principal is
\* no Administrador, or holds meetings and whose principal is neither
\* Administrador nor Junta de Vigilancia, is answered 403 (500 only when a
\* statement failed first) and changes no table.
C3_CollectionRoleRejected ==
    (Responded /\ CollectionForbidden) =>
        /\ db = pre
        /\ resp # 200
        /\ (resp = 403 \/ err = "storage")

\* a save rejected for its strategic goals or meetings (not for its users)
\* after other blocks had been written
C3_Witness ==
    /\ Responded
    /\ CollectionForbidden
    /\ "users" \notin req.body.has
    /\ resp = 403
    /\ written # {}
    /\ db = pre

\* C4: whatever the outcome of a save, the tables of every top-level key
\* that is absent from the body are as they were when the request entered.
C4_AbsentKeysUntouched ==
    Responded =>
        \A k \in Keys \ req.body.has : \A t \in TablesOf(k) : db[t] = pre[t]

\* a committed save that changed tables and whose body lacked some keys
C4_Witness ==
    /\ Responded
    /\ resp = 200
    /\ req.body.has # {}
    /\ Keys \ req.body.has # {}
    /\ db # pre


----------------------------------------------------------------------------
(* Properties of the users block.                                          *)

\* a save that held the users collection was committed
UsersSaved == Responded /\ resp = 200 /\ "users" \in req.body.has

\* the last entry of the body for user id (0 when there is none)
LastEntry(us, id) ==
    IF \E i \in DOMAIN us : us[i].id = id
    THEN CHOOSE i \in DOMAIN us : us[i].id = id /\ \A j \in DOMAIN us : us[j].id = id => j <= i
    ELSE 0

\* C5: after a committed save of users by an Administrador the stored ids
\* are the submitted ids plus the principal's own id when it was stored;
\* every submitted id carries the name, role and area submitted for it (of
\* its last entry when the body repeats the id).
C5_UsersDiffUpsert ==
    UsersSaved =>
        LET us == req.body.users
            I == IdSet(us)
            E == DOMAIN pre.users
        IN  /\ req.user.role = Admin
            /\ DOMAIN db.users = I \cup ({req.user.id} \cap E)
            /\ \A id \in I :
                  LET u == us[LastEntry(us, id)]
                  IN  /\ db.users[id].name = u.name
                      /\ db.users[id].role = u.role
                      /\ db.users[id].area = u.area
            /\ \A id \in E \ I : id \in DOMAIN db.users =>
                  id = req.user.id /\ db.users[id] = pre.users[id]

\* a stored user other than the principal was deleted and the principal,
\* absent from the body, was kept
C5_Witness ==
    /\ UsersSaved
    /\ req.user.id \in DOMAIN pre.users
    /\ req.user.id \notin IdSet(req.body.users)
    /\ req.user.id \in DOMAIN db.users
    /\ \E id \in DOMAIN pre.users : id # req.user.id /\ id \notin DOMAIN db.users

\* the password stored for an id when the request entered (NULL for none)
StoredBefore(id) ==
    IF id \in DOMAIN pre.users THEN pre.users[id].password ELSE NullPw

\* pw is a salted hash of the plain password sent
FreshHashOf(pw, sent) == pw.kind = "hash" /\ pw.of = sent.of /\ pw.salt \in Salts

\* C9 as stated: for every submitted user, a present password without the
\* '$2a$' prefix ends up stored as a hash of it, and otherwise the stored
\* password is the one stored for the id before the save.
C9_AsStated ==
    UsersSaved =>
        \A i \in DOMAIN req.body.users :
            LET u == req.body.users[i]
            IN  IF HashesPassword(u)
                THEN FreshHashOf(db.users[u.id].password, u.password)
                ELSE db.users[u.id].password = StoredBefore(u.id)

\* the last entry of the body for user id that carries a present password
\* without the '$2a$' prefix (0 when there is none)
LastHashed(us, id) ==
    IF \E i \in DOMAIN us : us[i].id = id /\ HashesPassword(us[i])
    THEN CHOOSE i \in DOMAIN us :
            /\ us[i].id = id /\ HashesPassword(us[i])
            /\ \A j \in DOMAIN us : (us[j].id = id /\ HashesPassword(us[j])) => j <= i
    ELSE 0

\* C9 amended: for every submitted id, when some entry of the body for it
\* carries a present password without the '$2a$' prefix the stored password
\* is a fresh hash of the last such entry's password; otherwise it is the
\* password stored for the id before the save (NULL for an id not stored).
C9_PasswordPreserved ==
    UsersSaved =>
        \A id \in IdSet(req.body.users) :
            LET k == LastHashed(req.body.users, id)
            IN  IF k # 0
                THEN FreshHashOf(db.users[id].password, req.body.users[k].password)
                ELSE db.users[id].password = StoredBefore(id)

\* a stored hash was kept for a user sent without a password, and a user
\* sent with a '$2a$' string kept the stored hash too
C9_Witness ==
    /\ UsersSaved
    /\ \E i \in DOMAIN req.body.users :
          LET u == req.body.users[i]
          IN  /\ ~Truthy(u.password)
              /\ IsSaltedHash(StoredBefore(u.id))
              /\ db.users[u.id].password = StoredBefore(u.id)
    /\ \E i \in DOMAIN req.body.users :
          LET u == req.body.users[i]
          IN  /\ StartsWith2a(u.password)
              /\ IsSaltedHash(StoredBefore(u.id))
              /\ db.users[u.id].password = StoredBefore(u.id)

\* C10 as stated: every stored password is a salted hash.
C10_AllPasswordsHashed ==
    \A k \in DOMAIN db.users : IsSaltedHash(db.users[k].password)


----------------------------------------------------------------------------
(* Properties of the indicators block.                                     *)

\* a save that held the indicators collection was committed
IndicatorsSaved == Responded /\ resp = 200 /\ "indicators" \in req.body.has

\* the rows of table t of store d that hang under the indicators of ids
ChildRowsOf(d, t, ids) ==
    IF t \in {"historical_data", "goals"}
    THEN {r \in d[t] : r.indicator_id \in ids}
    ELSE IF t = "action_plan_updates"
    THEN {<<k, d[t][k]>> : k \in {j \in DOMAIN d[t] :
            /\ d[t][j].action_plan_id \in DOMAIN d.action_plans
            /\ d.action_plans[d[t][j].action_plan_id].indicator_id \in ids}}
    ELSE {<<k, d[t][k]>> : k \in {j \in DOMAIN d[t] : d[t][j].indicator_id \in ids}}

\* C6 as stated: after a committed save of indicators the stored indicator
\* ids are exactly the submitted ids.
C6_AsStated ==
    IndicatorsSaved => DOMAIN db.indicators = IdSet(req.body.indicators)

\* C6 amended: after a committed save of indicators the stored ids are the
\* ids stored before together with the submitted ids; every submitted
\* indicator carries the submitted responsibleArea and data (of its last
\* entry), and an indicator absent from the body keeps its row and all its
\* child rows.
C6_IndicatorsUpsertOnly ==
    IndicatorsSaved =>
        LET inds == req.body.indicators
            I == IdSet(inds)
            E == DOMAIN pre.indicators
        IN  /\ DOMAIN db.indicators = E \cup I
            /\ \A id \in I :
                  LET ind == inds[LastEntry(inds, id)]
                  IN  /\ db.indicators[id].responsibleArea = ind.responsibleArea
                      /\ db.indicators[id].data = ind.data
            /\ \A id \in E \ I :
                  /\ db.indicators[id] = pre.indicators[id]
                  /\ \A t \in TablesOf("indicators") \ {"indicators"} :
                        ChildRowsOf(db, t, {id}) = ChildRowsOf(pre, t, {id})

\* a stored indicator with child rows was absent from the body and stays,
\* a new indicator was created and a stored one was updated
C6_Witness ==
    /\ IndicatorsSaved
    /\ \E id \in DOMAIN pre.indicators \ IdSet(req.body.indicators) :
          /\ id \in DOMAIN db.indicators
          /\ ChildRowsOf(db, "risks", {id}) # {}
    /\ IdSet(req.body.indicators) \ DOMAIN pre.indicators # {}
    /\ \E id \in IdSet(req.body.indicators) \cap DOMAIN pre.indicators :
          db.indicators[id] # pre.indicators[id]


----------------------------------------------------------------------------
(* Properties of the strategic goals, meetings, threads and notifications  *)
(* blocks.                                                                 *)

\* a save that held collection k was committed
Saved(k) == Responded /\ resp = 200 /\ k \in req.body.has

\* table t holds one row per entry of coll, with the id and value submitted
HoldsExactly(t, coll) ==
    /\ DOMAIN t = IdSet(coll)
    /\ Cardinality(DOMAIN t) = Len(coll)
    /\ \A i \in DOMAIN coll : t[coll[i].id].v = coll[i].v

\* C7: after a committed save of strategicGoals the strategic_goals table
\* holds the submitted rows and no other row.
C7_GoalsReplaced ==
    Saved("strategicGoals") => HoldsExactly(db.strategic_goals, req.body.strategicGoals)

\* the stored goals were replaced by submitted ones: a stored goal went, a
\* new one came
C7_Witness ==
    /\ Saved("strategicGoals")
    /\ DOMAIN pre.strategic_goals \ DOMAIN db.strategic_goals # {}
    /\ DOMAIN db.strategic_goals \ DOMAIN pre.strategic_goals # {}

\* the first entry of the collection for an id
FirstEntry(coll, id) ==
    CHOOSE i \in DOMAIN coll : coll[i].id = id /\ \A j \in DOMAIN coll : coll[j].id = id => i <= j

\* the child rows submitted under the last entry of every parent id
SubmittedChildren(coll, field, fk) ==
    UNION {LET e == coll[LastEntry(coll, id)]
           IN  {<<e[field][j].id, [c \in {fk, "v"} |-> IF c = fk THEN id ELSE e[field][j].v]>> :
                    j \in DOMAIN e[field]}
           : id \in IdSet(coll)}

\* the rows of a keyed table as a set of <<id, row>>
RowsOf(t) == {<<k, t[k]>> : k \in DOMAIN t}

\* table t holds one row per submitted id, with the value of its last entry
HoldsLast(t, coll) ==
    /\ DOMAIN t = IdSet(coll)
    /\ \A id \in DOMAIN t : t[id].v = coll[LastEntry(coll, id)].v

\* meetings and decisions, threads and replies, notifications hold the rows
\* submitted (of the last entry of an id the body repeats), leaving aside
\* the authorId and timestamp of the threads
RowsReplaced ==
    /\ Saved("meetings") =>
          /\ HoldsLast(db.meetings, req.body.meetings)
          /\ RowsOf(db.decisions) = SubmittedChildren(req.body.meetings, "decisions", "meeting_id")
    /\ Saved("discussionThreads") =>
          /\ HoldsLast(db.discussion_threads, req.body.discussionThreads)
          /\ RowsOf(db.thread_replies) =
                SubmittedChildren(req.body.discussionThreads, "replies", "thread_id")
    /\ Saved("notifications") => HoldsExactly(db.notifications, req.body.notifications)

\* C8 as stated: after a committed save of meetings, discussionThreads or
\* notifications the table and its child table hold the submitted rows and
\* every stored field, authorId and timestamp of a thread included, carries
\* the submitted value.
C8_AsStated ==
    /\ RowsReplaced
    /\ Saved("discussionThreads") =>
          \A id \in DOMAIN db.discussion_threads :
              LET t == req.body.discussionThreads[LastEntry(req.body.discussionThreads, id)]
              IN  /\ db.discussion_threads[id].authorId = t.authorId
                  /\ db.discussion_threads[id].timestamp = t.timestamp

\* C8 amended: the tables hold the submitted rows (of the last entry of a
\* repeated id) and every stored field carries the submitted value, except
\* that under the second revision a thread keeps the authorId and timestamp
\* it was first stored with: those stored before the save for an id that
\* existed, those of the first entry for a new id.
C8_RowsReplacedAuthorKept ==
    /\ RowsReplaced
    /\ Saved("discussionThreads") =>
          \A id \in DOMAIN db.discussion_threads :
              LET ts == req.body.discussionThreads
                  kept == rev = 2 /\ id \in DOMAIN pre.discussion_threads
                  t == IF rev = 2 THEN ts[FirstEntry(ts, id)] ELSE ts[LastEntry(ts, id)]
              IN  /\ db.discussion_threads[id].authorId =
                        IF kept THEN pre.discussion_threads[id].authorId ELSE t.authorId
                  /\ db.discussion_threads[id].timestamp =
                        IF kept THEN pre.discussion_threads[id].timestamp ELSE t.timestamp

\* a thread that was stored was saved again with another author and
\* timestamp and other replies
C8_Witness ==
    /\ Saved("discussionThreads")
    /\ \E id \in DOMAIN pre.discussion_threads \cap DOMAIN db.discussion_threads :
          LET t == req.body.discussionThreads[LastEntry(req.body.discussionThreads, id)]
          IN  /\ t.authorId # pre.discussion_threads[id].authorId
              /\ t.timestamp # pre.discussion_threads[id].timestamp
              /\ db.discussion_threads[id].v # pre.discussion_threads[id].v
    /\ RowsOf(db.thread_replies) # RowsOf(pre.thread_replies)

----------------------------------------------------------------------------
(* Properties of the attachments of an indicator.                          *)

\* the attachments of the updates of the action plans of an indicator
UpdateAttachments(ind) ==
    UNION {{ind.actionPlans[i].updates[j].attachment :
                j \in DOMAIN ind.actionPlans[i].updates} : i \in DOMAIN ind.actionPlans}
        \ {NoAttachment}

\* direct and update-embedded attachments merged by id, the update winning
MergedAttachments(ind) ==
    {<<a.id, a.v>> : a \in UpdateAttachments(ind)}
        \cup {<<ind.attachments[i].id, ind.attachments[i].v>> :
                i \in {j \in DOMAIN ind.attachments :
                        \A a \in UpdateAttachments(ind) : a.id # ind.attachments[j].id}}

\* the stored attachments rows of indicator id, as <<id, fields>>
StoredAttachments(id) ==
    {<<k, db.attachments[k].v>> :
        k \in {j \in DOMAIN db.attachments : db.attachments[j].indicator_id = id}}

\* the entry of the body that was written last for indicator id
SavedIndicator(id) == req.body.indicators[LastEntry(req.body.indicators, id)]

----------------------------------------------------------------------------
(* Order of authorization and writes inside one transaction.               *)

\* the child tables of an indicator
IndicatorChildTables ==
    {"historical_data", "goals", "observations", "risks", "action_plans",
     "action_plan_updates", "attachments", "audit_logs"}

\* the statements of the open transaction have changed the row of
\* indicator id or one of its child rows
IndicatorTouched(id) ==
    \/ (id \in DOMAIN work.indicators) # (id \in DOMAIN pre.indicators)
    \/ id \in DOMAIN work.indicators /\ id \in DOMAIN pre.indicators
          /\ work.indicators[id] # pre.indicators[id]
    \/ \E t \in IndicatorChildTables : ChildRowsOf(work, t, {id}) # ChildRowsOf(pre, t, {id})

\* the ids of the risks stored under indicator id in store d
RiskIds(d, id) == {k \in DOMAIN d.risks : d.risks[k].indicator_id = id}

\* what the per-indicator authorization lets the principal write, stated on
\* the tables as they were when the request entered
IndicatorWriteAllowed(id) ==
    /\ req.user.role = Manager /\ id \in DOMAIN pre.indicators =>
          pre.indicators[id].responsibleArea = req.user.area
    /\ rev = 2 /\ id \notin DOMAIN pre.indicators => req.user.role = Admin
    /\ rev = 2 /\ RiskIds(work, id) # RiskIds(pre, id) => req.user.role \in {Admin, Oversight}

\* C13: at every point of a transaction, the statements issued so far have
\* written users or strategic_goals only for an Administrador, meetings or
\* decisions only for an Administrador or the Junta de Vigilancia, and an
\* indicator or its child rows only where the per-indicator check lets the
\* principal write; so a request rejected for a collection has issued no
\* write to it.
C13_AuthorizeBeforeWrite ==
    inTx =>
        /\ work.users # pre.users => req.user.role = Admin
        /\ work.strategic_goals # pre.strategic_goals => req.user.role = Admin
        /\ (work.meetings # pre.meetings \/ work.decisions # pre.decisions) =>
              req.user.role \in {Admin, Oversight}
        /\ \A id \in DOMAIN work.indicators \cup DOMAIN pre.indicators :
              IndicatorTouched(id) => IndicatorWriteAllowed(id)

\* a request is about to be rejected for its strategic goals: indicators
\* were written in its transaction, the strategic goals were not
C13_Witness ==
    /\ inTx /\ pc = "catch" /\ err = "auth"
    /\ req.user.role # Admin
    /\ "strategicGoals" \in req.body.has
    /\ work.indicators # pre.indicators
    /\ work.strategic_goals = pre.strategic_goals

----------------------------------------------------------------------------
(* Children and their parents.                                             *)

\* every child row of store d refers to a parent row that d holds
NoOrphans(d) ==
    /\ \A t \in {"historical_data", "goals"} :
          \A r \in d[t] : r.indicator_id \in DOMAIN d.indicators
    /\ \A t \in {"observations", "risks", "attachments", "audit_logs", "action_plans"} :
          \A k \in DOMAIN d[t] : d[t][k].indicator_id \in DOMAIN d.indicators
    /\ \A k \in DOMAIN d.action_plan_updates :
          d.action_plan_updates[k].action_plan_id \in DOMAIN d.action_plans
    /\ \A k \in DOMAIN d.decisions : d.decisions[k].meeting_id \in DOMAIN d.meetings
    /\ \A k \in DOMAIN d.thread_replies :
          d.thread_replies[k].thread_id \in DOMAIN d.discussion_threads

\* C14: in every committed state every row of a child table refers to a
\* parent row that exists; no update outlives its action plan, no decision
\* its meeting, no reply its thread.
C14_NoOrphans == NoOrphans(db)

\* a committed save removed an action plan that had updates
C14_Witness ==
    /\ Responded /\ resp = 200
    /\ \E p \in DOMAIN pre.action_plans \ DOMAIN db.action_plans :
          \E u \in DOMAIN pre.action_plan_updates :
              /\ pre.action_plan_updates[u].action_plan_id = p
              /\ u \notin DOMAIN db.action_plan_updates

\* a committed save removed a meeting that had decisions
C14_MeetingWitness ==
    /\ Responded /\ resp = 200
    /\ \E m \in DOMAIN pre.meetings \ DOMAIN db.meetings :
          \E k \in DOMAIN pre.decisions : pre.decisions[k].meeting_id = m

----------------------------------------------------------------------------
(* The same request twice.                                                 *)

\* the second submission of a request has been answered
TwiceDone == pc = "done" /\ hist.round = 2

\* both submissions were committed, or neither was
SameOutcome == (resp = 200) = (hist.first.resp = 200)

\* C15 as stated: when both submissions succeed or both fail, every table,
\* the stored passwords included, is after the second submission as it was
\* after the first, and the second is answered as the first was.
C15_AsStated ==
    (TwiceDone /\ SameOutcome) => db = hist.first.db

\* two stored passwords that are equal, or hashes of one plain password
SamePassword(a, b) == a = b \/ (IsSaltedHash(a) /\ IsSaltedHash(b) /\ a.of = b.of)

\* two stores that differ at most in the salt of stored password hashes
SameUpToSalt(d1, d2) ==
    /\ \A t \in DOMAIN d1 : t # "users" => d1[t] = d2[t]
    /\ DOMAIN d1.users = DOMAIN d2.users
    /\ \A k \in DOMAIN d1.users :
          /\ [d1.users[k] EXCEPT !.password = NullPw] = [d2.users[k] EXCEPT !.password = NullPw]
          /\ SamePassword(d1.users[k].password, d2.users[k].password)

\* the body moves an indicator out of the area of the principal
MovesIndicatorAway ==
    /\ "indicators" \in req.body.has
    /\ \E i \in DOMAIN req.body.indicators : req.body.indicators[i].responsibleArea # req.user.area

\* C15 amended: unless the first submission failed and the second was
\* committed, the tables after the second submission are those after the
\* first, but for the salt of the password hashes: a password sent in plain
\* text is hashed again and only then may the stored value differ.  When no
\* statement failed the second submission is answered as the first was,
\* except that an area manager who moved an indicator out of their area is
\* answered 200 and then 403.
C15_IdempotentUpToSalt ==
    TwiceDone =>
        /\ ~(hist.first.resp # 200 /\ resp = 200) =>
              /\ SameUpToSalt(db, hist.first.db)
              /\ db # hist.first.db =>
                    /\ resp = 200
                    /\ \E i \in DOMAIN req.body.users : HashesPassword(req.body.users[i])
        /\ (err # "storage" /\ hist.first.err # "storage" /\ resp # hist.first.resp) =>
              /\ hist.first.resp = 200 /\ resp = 403 /\ db = hist.first.db
              /\ req.user.role = Manager /\ MovesIndicatorAway

\* a plain password was saved twice and is stored under another salt
C15_Witness ==
    /\ TwiceDone /\ resp = 200 /\ hist.first.resp = 200
    /\ db # hist.first.db
    /\ SameUpToSalt(db, hist.first.db)

\* an area manager moved an indicator away and was rejected the second time
C15_RejectedWitness ==
    TwiceDone /\ hist.first.resp = 200 /\ resp = 403

----------------------------------------------------------------------------
(* Reading back what was saved.                                            *)

\* a document with all six collections was saved and getAppData has then
\* answered with a document
ReadBack ==
    /\ pc = "done" /\ resp = 200 /\ req.body.has = Keys
    /\ doc.status = 200

\* the ids of a set of objects
IdsOf(objects) == {o.id : o \in objects}

\* the entity of a set of objects with the given id
Entity(objects, id) == CHOOSE o \in objects : o.id = id

\* the <<id, value>> pairs of a set of objects, and of a submitted array
PairsOf(objects) == {<<o.id, o.v>> : o \in objects}
PairsIn(coll) == {<<coll[i].id, coll[i].v>> : i \in DOMAIN coll}

\* the entity read back holds the children of the submitted indicator
SameIndicatorChildren(e, ind) ==
    /\ {c.v : c \in e.historicalData} = Range(ind.historicalData)
    /\ {c.v : c \in e.goals} = Range(ind.goals)
    /\ PairsOf(e.observations) = PairsIn(ind.observations)
    /\ PairsOf(e.risks) = PairsIn(ind.risks)
    /\ PairsOf(e.attachments) = PairsIn(ind.attachments)
    /\ PairsOf(e.auditLog) = PairsIn(ind.auditLog)
    /\ PairsOf(e.actionPlans) = PairsIn(ind.actionPlans)
    /\ \A i \in DOMAIN ind.actionPlans :
          PairsOf(Entity(e.actionPlans, ind.actionPlans[i].id).updates)
              = PairsIn(ind.actionPlans[i].updates)

\* every submitted indicator, meeting and thread is read back with the
\* children submitted under (the last entry of) its id
SameNestedChildren ==
    /\ \A id \in IdSet(req.body.indicators) :
          /\ id \in IdsOf(doc.body.indicators)
          /\ SameIndicatorChildren(Entity(doc.body.indicators, id), SavedIndicator(id))
    /\ \A id \in IdSet(req.body.meetings) :
          /\ id \in IdsOf(doc.body.meetings)
          /\ PairsOf(Entity(doc.body.meetings, id).decisions)
                = PairsIn(req.body.meetings[LastEntry(req.body.meetings, id)].decisions)
    /\ \A id \in IdSet(req.body.discussionThreads) :
          /\ id \in IdsOf(doc.body.discussionThreads)
          /\ PairsOf(Entity(doc.body.discussionThreads, id).replies)
                = PairsIn(req.body.discussionThreads[
                            LastEntry(req.body.discussionThreads, id)].replies)

C20_ReadFailsWhole ==
    /\ [](doc.failed # 0 =>
              doc.status = 500 /\ doc.json = "message" /\ doc.body = EmptyDocument)
    /\ [](doc.status # 0 /\ doc.failed = 0 =>
              doc.status = 200 /\ doc.json = "document" /\ doc.body = Assemble(db))
    /\ [][doc' # doc => db' = db]_vars

\* a query of the second batch rejected after the first batch was read
C20_Witness ==
    /\ doc.failed > 6
    /\ doc.status = 500
    /\ db.indicators # EmptyTable

----------------------------------------------------------------------------
(* Grouping and placement of the child rows in the document.               *)

\* child table, its foreign key, the collection of its parents and the
\* property of the parent that holds the children
Placements ==
    {<<"historical_data", "indicator_id", "indicators", "historicalData">>,
     <<"goals", "indicator_id", "indicators", "goals">>,
     <<"observations", "indicator_id", "indicators", "observations">>,
     <<"risks", "indicator_id", "indicators", "risks">>,
     <<"attachments", "indicator_id", "indicators", "attachments">>,
     <<"audit_logs", "indicator_id", "indicators", "auditLog">>,
     <<"decisions", "meeting_id", "meetings", "decisions">>,
     <<"thread_replies", "thread_id", "discussionThreads", "replies">>}

\* every child row of a table is under its own parent, nothing else is
\* under that parent, and no child carries the foreign key
PlacedUnderParent(pl) ==
    /\ \A c \in Rows(db, pl[1]) :
          c[pl[2]] \in IdsOf(doc.body[pl[3]]) =>
              Without(c, pl[2]) \in Entity(doc.body[pl[3]], c[pl[2]])[pl[4]]
    /\ \A p \in doc.body[pl[3]] : \A o \in p[pl[4]] :
          /\ pl[2] \notin DOMAIN o
          /\ With(o, pl[2], p.id) \in Rows(db, pl[1])

\* the action plans are under their own indicator and the updates under
\* their own action plan
PlansPlaced ==
    /\ \A c \in Rows(db, "action_plans") :
          c.indicator_id \in IdsOf(doc.body.indicators) =>
              \E p \in Entity(doc.body.indicators, c.indicator_id).actionPlans :
                  Without(p, "updates") = Without(c, "indicator_id")
    /\ \A i \in doc.body.indicators : \A p \in i.actionPlans :
          /\ "indicator_id" \notin DOMAIN p
          /\ With(Without(p, "updates"), "indicator_id", i.id) \in Rows(db, "action_plans")
          /\ \A o \in p.updates :
                /\ "action_plan_id" \notin DOMAIN o
                /\ With(o, "action_plan_id", p.id) \in Rows(db, "action_plan_updates")
          /\ \A u \in Rows(db, "action_plan_updates") :
                u.action_plan_id = p.id => Without(u, "action_plan_id") \in p.updates

\* the document places the rows of the tables as the claim says
Placed == (\A pl \in Placements : PlacedUnderParent(pl)) /\ PlansPlaced

\* C21: whenever the sixteen reads of getAppData succeeded, groupChildrenBy
\* puts every row in the group of its parent key and the document answered
\* holds every child row whose parent exists under that parent and under no
\* other, the updates under their own action plan and the plans under their
\* own indicator, and no child with its foreign key.
C21_EveryRowPlacedOnce ==
    (doc.status # 0 /\ doc.failed \notin 1..Len(ReadTables)) =>
        doc.status = 200 /\ Placed

----------------------------------------------------------------------------
(* The connection and the transaction of one request.                      *)

\* how often event e occurs in the calls of the request
Count(e) == Cardinality({i \in DOMAIN hist.log : hist.log[i] = e})

\* the position of the one occurrence of event e
At(e) == CHOOSE i \in DOMAIN hist.log : hist.log[i] = e

\* C17: a save never acquires a second connection; when it has answered,
\* it acquired one connection, ended its unit of work by exactly one of
\* commit and rollback, and released the connection once, after that, as
\* its last call; and whenever the handler has ended no connection is held
\* and no transaction is open.
C17_ConnectionLifecycle ==
    /\ Count("getConnection") <= 1
    /\ (pc = "done" /\ resp # 0) =>
          /\ Count("getConnection") = 1 /\ At("getConnection") = 1
          /\ Count("commit") + Count("rollback") = 1
          /\ Count("release") = 1 /\ At("release") = Len(hist.log)
          /\ \A e \in {"commit", "rollback"} : Count(e) = 1 => At(e) < At("release")
    /\ pc = "done" =>
          /\ Count("release") = Count("getConnection")
          /\ ~inTx

\* a save whose commit was rejected after every block had run was rolled
\* back and released its connection
C17_Witness ==
    /\ pc = "done" /\ resp = 500
    /\ req.body.has = Keys /\ written = Keys
    /\ Count("rollback") = 1 /\ Count("release") = 1

\* the names of the blocks among the calls
BlockEvents == {i \in DOMAIN hist.log : hist.log[i] \in Keys}

\* C18: 200 is answered only after the commit and with no rollback, and
\* what was committed is what the request wrote; 403 and 500 are answered
\* only after the rollback, with no commit, and nothing is committed; and
\* once an error was raised no statement of a block runs any more.
C18_OutcomeMatchesAnswer ==
    /\ resp = 200 =>
          /\ Count("commit") = 1 /\ Count("rollback") = 0
          /\ At("commit") < At("respond")
          /\ err = "none"
    /\ resp \in {403, 500} =>
          /\ Count("rollback") = 1 /\ Count("commit") = 0
          /\ At("rollback") < At("respond")
          /\ err # "none" /\ db = pre
    /\ resp \in {0, 200, 403, 500}
    /\ Count("throw") <= 1
    /\ Count("throw") = 1 => \A i \in BlockEvents : i < At("throw")
    /\ (err # "none") = (Count("throw") = 1 \/ Count("getConnectionFailed") = 1)

\* a statement failed after the first blocks had run: the later blocks of
\* the body never ran and 500 was answered after the rollback
C18_Witness ==
    /\ pc = "done" /\ resp = 500
    /\ "users" \in written
    /\ "notifications" \in req.body.has \ written
    /\ Count("rollback") = 1

----------------------------------------------------------------------------
(* Two concurrent saves of one full-replace collection.                    *)

BothCommitted == cc.on /\ \A s \in Sessions : cc.ses[s].pc = "committed"

LastCommitter == cc.order[Len(cc.order)]

\* C19: when two concurrent saves of the same full-replace collection have
\* both committed, the collection holds exactly the entries of the save
\* that committed last, each as that save submitted it, and no row of the
\* other save.
C19_LastCommitWins ==
    BothCommitted =>
        \A id \in ConcIds :
            cc.rows[id].val = IF id \in cc.ses[LastCommitter].sub
                              THEN Payload(LastCommitter) ELSE "absent"

----------------------------------------------------------------------------
(* Dates.                                                                  *)

\* the submitted entries that carry dates, each with the row stored for it
\* (or no row)
DatedEntries ==
    LET pair(item, t) ==
            [item |-> item,
             rows |-> IF item.id \in DOMAIN db[t] THEN {db[t][item.id]} ELSE {}]
    IN  {pair(g, "strategic_goals") : g \in Range(req.body.strategicGoals)}
        \cup {pair(m, "meetings") : m \in Range(req.body.meetings)}
        \cup UNION {{pair(d, "decisions") : d \in Range(m.decisions)} :
                       m \in Range(req.body.meetings)}
        \cup UNION {{pair(c, "action_plans") : c \in Range(i.actionPlans)}
                       \cup {pair(c, "risks") : c \in Range(i.risks)} :
                       i \in Range(req.body.indicators)}

\* a save has answered whose body holds the date d in a block that ran
SavedWithDate(d) ==
    /\ pc = "done"
    /\ \E k \in req.body.has : d \in BoundDates(req.body, k)

\* C22: a save whose payload holds the string "not-a-date" in a date field,
\* and in which nothing else fails, commits; the field is stored as null
\* (the row has no value in that column) and every other field of every
\* submitted entry is stored as submitted.
C22_UnparseableDateAbsorbed ==
    (SavedWithDate("not-a-date") /\ (err = "none" \/ Count("incorrectDate") = 1)) =>
        /\ resp = 200
        /\ \A e \in DatedEntries :
              /\ e.rows # {}
              /\ \A r \in e.rows :
                    /\ r.v = e.item.v
                    /\ \A f \in DateFields \cap DOMAIN e.item :
                          IF e.item[f] = "not-a-date" THEN f \notin DOMAIN r
                          ELSE f \in DOMAIN r

\* C23: after a committed save every stored date is in the form
\* 'YYYY-MM-DD HH:MM:SS'; a due date or target date submitted as
\* "19/08/2024" is stored as "2024-08-19 00:00:00", and a date with time
\* submitted as "2024-08-19T14:30:00.000Z" is stored as
\* "2024-08-19 14:30:00".
C23_DatesCanonical ==
    (pc = "done" /\ resp = 200) =>
        \A e \in DatedEntries : \A r \in e.rows : \A f \in DateFields \cap DOMAIN r :
            /\ r[f] \in CanonicalDates
            /\ (f \in {"dueDate", "targetDate"} /\ e.item[f] = "19/08/2024")
                  => r[f] = "2024-08-19 00:00:00"
            /\ (f \in {"date", "createdDate"} /\ e.item[f] = "2024-08-19T14:30:00.000Z")
                  => r[f] = "2024-08-19 14:30:00"

----------------------------------------------------------------------------
(* Registration under concurrent requests.                                 *)

\* C24: no two stored users share a name (their ids are the keys of the
\* table); every register request that has answered was answered 400, 409
\* or 201, never with a server error for an id or name that another
\* request took in the meantime; and a request answered 201 has stored
\* its user with a hashed password.
C24_RegisterUnique ==
    /\ \A a, b \in DOMAIN db.users : a # b => db.users[a].name # db.users[b].name
    /\ \A s \in DOMAIN cc.reg :
          cc.reg[s].pc = "done" =>
              /\ cc.reg[s].status \in {400, 409, 201}
              /\ cc.reg[s].status = 201 =>
                    /\ cc.reg[s].body.id \in DOMAIN db.users
                    /\ IsSaltedHash(db.users[cc.reg[s].body.id].password)

----------------------------------------------------------------------------
(* The child rows of a saved indicator.                                    *)

\* the ids and values of the rows of keyed table t under indicator id
StoredUnder(t, id) ==
    {<<k, db[t][k].v>> : k \in {j \in DOMAIN db[t] : db[t][j].indicator_id = id}}

\* the ids and values of a submitted child collection
SubmittedIn(coll) == {<<coll[i].id, coll[i].v>> : i \in DOMAIN coll}

\* the ids, values and attachment texts of the updates stored under plan p
StoredUpdates(p) ==
    {<<k, db.action_plan_updates[k].v, db.action_plan_updates[k].attachment>> :
        k \in {j \in DOMAIN db.action_plan_updates :
                  db.action_plan_updates[j].action_plan_id = p}}

\* C25: after a committed save of indicators, every child table holds under
\* each submitted indicator exactly the rows submitted for it (in its last
\* entry), none when the collection is empty, and under each of its action
\* plans exactly the submitted updates; the child rows of the indicators
\* that are not in the payload are as before.
C25_ChildrenReplaced ==
    IndicatorsSaved =>
        /\ \A id \in IdSet(req.body.indicators) :
              LET e == SavedIndicator(id)
              IN  /\ {r.v : r \in {x \in db.historical_data : x.indicator_id = id}}
                        = Range(e.historicalData)
                  /\ {r.v : r \in {x \in db.goals : x.indicator_id = id}} = Range(e.goals)
                  /\ StoredUnder("observations", id) = SubmittedIn(e.observations)
                  /\ StoredUnder("risks", id) = SubmittedIn(e.risks)
                  /\ StoredUnder("attachments", id) = SubmittedIn(e.attachments)
                  /\ StoredUnder("audit_logs", id) = SubmittedIn(e.auditLog)
                  /\ StoredUnder("action_plans", id) = SubmittedIn(e.actionPlans)
                  /\ \A i \in DOMAIN e.actionPlans :
                        StoredUpdates(e.actionPlans[i].id) =
                            {<<u.id, u.v, JsonStringify(u.attachment)>> :
                                u \in Range(e.actionPlans[i].updates)}
        /\ \A id \in DOMAIN pre.indicators \ IdSet(req.body.indicators) :
              \A t \in IndicatorChildTables :
                  ChildRowsOf(db, t, {id}) = ChildRowsOf(pre, t, {id})

\* an indicator that had a child row in every table was saved with no
\* children while another indicator kept its own, or was saved with other
\* children than it had
C25_Witness ==
    /\ IndicatorsSaved
    /\ \E id \in IdSet(req.body.indicators) \cap DOMAIN pre.indicators :
          /\ ChildRowsOf(pre, "risks", {id}) # {}
          /\ ChildRowsOf(pre, "action_plan_updates", {id}) # {}
          /\ ChildRowsOf(db, "risks", {id}) # ChildRowsOf(pre, "risks", {id})
          /\ ChildRowsOf(db, "action_plan_updates", {id})
                # ChildRowsOf(pre, "action_plan_updates", {id})
    /\ \E id \in DOMAIN pre.indicators \ IdSet(req.body.indicators) :
          ChildRowsOf(pre, "risks", {id}) # {}

----------------------------------------------------------------------------
(* The order of the statements of one save.                                *)

\* the statements the request has executed so far
Trace == IF "trace" \in DOMAIN cc THEN cc.trace ELSE <<>>

OrderIndex(k) == CHOOSE n \in DOMAIN Order : Order[n] = k

\* the column of a child table that names the parent row
ParentKey(t) ==
    CASE t = "action_plan_updates" -> "action_plan_id"
      [] t = "decisions" -> "meeting_id"
      [] t = "thread_replies" -> "thread_id"
      [] OTHER -> "indicator_id"

ChildTables ==
    {"historical_data", "goals", "observations", "risks", "attachments", "audit_logs",
     "action_plans", "action_plan_updates", "decisions", "thread_replies"}

ChildTableOf(t) ==
    CASE t = "action_plans" -> "action_plan_updates"
      [] t = "meetings" -> "decisions"
      [] t = "discussion_threads" -> "thread_replies"

\* the parent rows the rows of an INSERT into a child table refer to
ParentsIn(s) ==
    IF s.op = "insertPlain" THEN {s.arg[n].indicator_id : n \in DOMAIN s.arg}
    ELSE {s.arg[n].row[ParentKey(s.t)] : n \in DOMAIN s.arg}

\* statement i is a DELETE on child table t that covers the children of
\* parent x: the whole table, the rows of x, or the updates of the plans of
\* the indicator under which plan x is then inserted
DeletesChildrenOf(i, t, x) ==
    LET d == Trace[i]
    IN  /\ d.t = t
        /\ \/ d.op = "deleteAll"
           \/ d.op = "deleteByParent" /\ x \in d.arg.parents
           \/ /\ d.op = "deleteUpdatesOfPlansOf"
              /\ \E j \in DOMAIN Trace :
                    /\ Trace[j].op = "insert" /\ Trace[j].t = "action_plans"
                    /\ \E n \in DOMAIN Trace[j].arg :
                          /\ Trace[j].arg[n].id = x
                          /\ Trace[j].arg[n].row.indicator_id = d.arg

\* statement j deletes rows of a parent table and an earlier statement has
\* deleted the children of those rows
ChildDeleteBefore(j) ==
    LET d == Trace[j]
    IN  \E i \in 1..(j - 1) :
           /\ Trace[i].t = ChildTableOf(d.t)
           /\ \/ d.op = "deleteAll" /\ Trace[i].op = "deleteAll"
              \/ /\ d.op = "deleteIds" /\ Trace[i].op = "deleteByParent"
                 /\ d.arg \subseteq Trace[i].arg.parents
              \/ /\ d.op = "deleteByParent" /\ Trace[i].op = "deleteUpdatesOfPlansOf"
                 /\ d.arg.parents = {Trace[i].arg}

CollectionsInOrder ==
    \A i, j \in DOMAIN Trace : i < j => OrderIndex(Trace[i].k) <= OrderIndex(Trace[j].k)

ChildrenDeletedBeforeParents ==
    \A j \in DOMAIN Trace :
        (/\ Trace[j].t \in {"action_plans", "meetings", "discussion_threads"}
         /\ Trace[j].op \in {"deleteAll", "deleteIds", "deleteByParent"})
            => ChildDeleteBefore(j)

ChildrenDeletedBeforeReinsert ==
    \A j \in DOMAIN Trace :
        (Trace[j].t \in ChildTables /\ Trace[j].op \in {"insert", "insertPlain"})
            => \A x \in ParentsIn(Trace[j]) :
                  \E i \in 1..(j - 1) : DeletesChildrenOf(i, Trace[j].t, x)

\* C26: the statements of one save run one after another inside its
\* transaction, block after block in the order users, indicators, strategic
\* goals, meetings, discussion threads, notifications; a DELETE of parent
\* rows comes after the DELETE of their child rows, an INSERT of child rows
\* after a DELETE of the children of their parent, and after every statement
\* each child row in the working tables has its parent row.
C26_StatementOrder ==
    /\ (pc \in Keys /\ Trace # <<>>) => inTx
    /\ CollectionsInOrder
    /\ ChildrenDeletedBeforeParents
    /\ ChildrenDeletedBeforeReinsert
    /\ inTx => NoOrphans(work)

\* a committed save of the second revision that wrote users first, inserted
\* an update under a plan and a decision under a meeting, and deleted a
\* stored thread with its replies
C26_Witness ==
    /\ pc = "done" /\ resp = 200
    /\ \E i, j \in DOMAIN Trace :
          /\ Trace[1].k = "users"
          /\ Trace[i].op = "insert" /\ Trace[i].t = "action_plan_updates"
          /\ Trace[j].op = "insert" /\ Trace[j].t = "decisions"
          /\ i < j

----------------------------------------------------------------------------
(* The guards of the risks and of the creation of an indicator.            *)

\* the principal may not manage risks
NoRiskRole == req.user.role \notin {Admin, Oversight}

\* the body holds an indicator whose submitted risk ids (none when the field
\* is left out) are not the ones stored for it when the request entered
SubmitsOtherRisks ==
    /\ "indicators" \in req.body.has
    /\ \E i \in DOMAIN req.body.indicators :
          IdSet(req.body.indicators[i].risks) # RiskIds(pre, req.body.indicators[i].id)

\* the body holds an indicator whose id was not stored when the request
\* entered
SubmitsNewIndicator ==
    /\ "indicators" \in req.body.has
    /\ \E i \in DOMAIN req.body.indicators :
          req.body.indicators[i].id \notin DOMAIN pre.indicators

\* the save was rejected: nothing committed, answered 403 (500 only when a
\* statement failed before the check was reached)
Rejected == db = pre /\ resp # 200 /\ (resp = 403 \/ err = "storage")

\* C27: a save by a principal that is neither Administrador nor Junta de
\* Vigilancia leaves the set of risk ids of every indicator as it was, and
\* when the body submits for an indicator other risk ids than the stored
\* ones the save is answered 403 and commits nothing.
C27_RiskGuard ==
    (Responded /\ NoRiskRole) =>
        /\ \A id \in DOMAIN db.indicators \cup DOMAIN pre.indicators :
              RiskIds(db, id) = RiskIds(pre, id)
        /\ SubmitsOtherRisks => Rejected

\* C28: a save by a principal that is no Administrador leaves the set of
\* stored indicator ids as it was, and when its body holds an indicator
\* whose id is not stored the save is answered 403 and commits nothing.
C28_CreationGuard ==
    (Responded /\ req.user.role # Admin) =>
        /\ DOMAIN db.indicators = DOMAIN pre.indicators
        /\ SubmitsNewIndicator => Rejected

----------------------------------------------------------------------------
(* Authorization as a function of the principal of the request.            *)

\* an earlier request was kept whose payload, role, area and stored areas
\* and risk ids are those of the request just answered
SameAsKept ==
    /\ Responded
    /\ err # "storage"
    /\ "ref" \in DOMAIN cc
    /\ cc.ref.key = Observed.key

\* C29: two saves with the same payload, the same role and area in the
\* principal and the same stored responsibleArea and stored risk ids for the
\* submitted indicators have the same authorization outcome (accepted or
\* 403), whatever the users table holds at either of them.
C29_AuthorizationStateless == SameAsKept => cc.ref.out = Observed.out

\* a request of principal 2 was rejected after the administrator had deleted
\* the user row of principal 2, as the same request had been before
C29_Witness ==
    /\ SameAsKept
    /\ Observed.out = 403
    /\ req.user.id \in DOMAIN cc.ref.users
    /\ req.user.id \notin DOMAIN pre.users

\* a request of principal 2 was accepted after the stored role of user 2 had
\* changed, as the same request had been before
C29_RoleWitness ==
    /\ SameAsKept
    /\ Observed.out = 200
    /\ req.user.id \in DOMAIN cc.ref.users /\ req.user.id \in DOMAIN pre.users
    /\ cc.ref.users[req.user.id].role # pre.users[req.user.id].role

----------------------------------------------------------------------------
(* The document of a read served while saves commit.                       *)

\* C30: the document getAppData returns is the one assembled from one
\* committed state of the tables: a state that was committed at some moment
\* between the first query of the read and its answer.
C30_ReadsOneCommittedState ==
    ("got" \in DOMAIN cc /\ doc.status = 200) =>
        \E s \in cc.states : doc.body = Assemble(s)

----------------------------------------------------------------------------
(* The upgrade of login and a save that commits meanwhile.                 *)

\* login has answered after its UPDATE changed a row
LoginWrote == cc.login.stage = "done" /\ cc.login.wrote

\* C31: the UPDATE of login's upgrade replaces the plain-text value login
\* compared against, and no other: a password that a save committed between
\* login's SELECT and its UPDATE is not replaced.
C31_UpgradeKeepsNewPassword ==
    LoginWrote => cc.login.replaced = cc.login.compared

----------------------------------------------------------------------------
(* Properties of login.                                                    *)

\* a step in which login served a request and read the row of a user
LoginServed == pc = "idle" /\ pc' = "answered" /\ last'.op = "login" /\ last'.id # 0

\* C11: a login whose password equals a stored plain-text password writes
\* once, replacing that password by a hash of it (unless a query failed and
\* it answered 500 without a write); a login that finds a hash stored
\* writes nothing and, when it answers 200 or 401, answers 200 exactly when
\* the hash compares (so does every login after the upgrade); a login that
\* answers 401 writes nothing.
C11_LoginUpgradesOnce ==
    [][LoginServed =>
          LET k == last'.id
              old == db.users[k].password
              new == db'.users[k].password
              pw == last'.pw
          IN  /\ db' = [db EXCEPT !.users[k].password = new]
              /\ IF ~StartsWith2a(old) /\ pw = old
                 THEN \/ /\ last'.wrote /\ last'.status \in {200, 500}
                         /\ IsSaltedHash(new) /\ BcryptCompare(pw, new)
                      \/ ~last'.wrote /\ last'.status = 500 /\ db' = db
                 ELSE ~last'.wrote /\ db' = db
              /\ StartsWith2a(old) /\ last'.status # 500 =>
                    last'.status = IF BcryptCompare(pw, old) THEN 200 ELSE 401
              /\ last'.status = 401 => db' = db /\ ~IsMatch(pw, old)]_vars

\* a login has just replaced a plain-text password by its hash
C11_Witness ==
    /\ pc = "answered" /\ last.op = "login" /\ last.wrote /\ last.status = 200
    /\ IsSaltedHash(db.users[last.id].password)

====
